---- MODULE Spec2Model ----
(***************************************************************************)
(* Model of grist-sync-plugin: the error classifier (analyzeError and its  *)
(* helpers) and the Grist destination client (GristClient), both found in  *)
(* src/src/utils/errorHandler.ts.                                          *)
(*                                                                         *)
(* Text.  A JavaScript string is modelled as a sequence of atoms.  An atom *)
(* is a piece of text; the patterns the code searches for (String.includes *)
(* and the regular expression /HTTP (\d+)/) are themselves sequences of    *)
(* atoms, and a pattern occurs in a text iff its atoms occur contiguously. *)
(* The vocabulary is chosen so that a pattern never straddles an atom      *)
(* boundary in a text that is searched (an error message, including the    *)
(* messages GristClient builds from a diagnosis' message and its first     *)
(* solution): there, every atom that is not itself a pattern piece (a      *)
(* French sentence of the catalogue, "other", ...) contains no pattern in  *)
(* either case.  Titles, explanations and the later solutions are only     *)
(* displayed, never searched.  toLowerCase is the atom-wise map LowerAtom. *)
(* Texts are                                                               *)
(* written in ASCII: accents are dropped and the check mark and warning    *)
(* sign of the catalogue are written [ok] and [!].                         *)
(***************************************************************************)
EXTENDS Integers, Sequences, FiniteSets, TLC

VARIABLES
    error,      \* classifier: the caught value handed to analyzeError
    context,    \* classifier: the context tag
    errorInfo,  \* classifier: the ErrorInfo returned (NoInfo before the call)
    config,     \* client: GristClient.config
    onLog,      \* client: behaviour of GristClient.onLog (the logging sink)
    call,       \* client: the operation invoked and its argument
    network,    \* client: the answers of the network to the operation's fetch calls
    requests,   \* client: fetch calls issued so far by the operation, in order
    logs,       \* client: calls received by the sink, in order
    outcome,    \* client: how the operation ended (returned value / raised error)
    invocation, \* mapper: the function called and its arguments
    result,     \* mapper: how the function ended (returned value / raised error)
    currentStep,     \* wizard: the step shown, 1..4
    backendUrl,      \* wizard: the URL of the source
    apiData,         \* wizard: the records fetched at step 1
    sampleRecord,    \* wizard: the first record fetched
    wizardMappings,  \* wizard: the ref `mappings`
    gristConfig,     \* wizard: the destination configuration
    isStep4Complete, \* wizard: completion flag of step 4
    isLoading,       \* wizard: a step reported an operation in progress
    statusMessage,   \* wizard: the text of the alert, "" for none
    statusType,      \* wizard: the type of the alert
    statusTimeout,   \* wizard: the message whose expiry timer is armed, "null" for none
    localUrl,        \* step 1: the URL typed in the field
    pending,         \* steps: the asynchronous operations started and not yet settled
    event            \* wizard: the handler that ran last, with the step it ran at

classifierVars == <<error, context, errorInfo>>
clientVars == <<config, onLog, call, network, requests, logs, outcome>>
mapperVars == <<invocation, result>>
wizardVars ==
    <<currentStep, backendUrl, apiData, sampleRecord, wizardMappings, gristConfig, isStep4Complete,
      isLoading, statusMessage, statusType, statusTimeout, localUrl, pending, event>>
vars ==
    <<error, context, errorInfo, config, onLog, call, network, requests, logs, outcome, invocation, result,
      currentStep, backendUrl, apiData, sampleRecord, wizardMappings, gristConfig, isStep4Complete,
      isLoading, statusMessage, statusType, statusTimeout, localUrl, pending, event>>

----------------------------------------------------------------------------
(* Bounds *)

\* number of phrases chained to build a message handed to the classifier
MaxPhrases == 2
\* longest record list handed to addRecords / ensureColumnsExist
MaxRecords == 2
\* longest mapping list handed to transformRecord / transformRecords
MaxMappings == 2
\* the largest number of leading records without a value for the inferred column
MaxSkipped == 11
\* the largest number of asynchronous operations of the steps in flight together
MaxPending == 2

----------------------------------------------------------------------------
(* Text *)

\* String.prototype.includes on atom sequences
Includes(s, p) ==
    \E i \in 0..(Len(s) - Len(p)) : \A j \in 1..Len(p) : s[i + j] = p[j]

LowerAtom(a) ==
    CASE a = "HTTP" -> "http"
      [] a = "CORS" -> "cors"
      [] a = "JSON" -> "json"
      [] a = "Timeout" -> "timeout"
      [] a = "Failed to fetch" -> "failed to fetch"
      [] a = "Network" -> "network"
      [] a = "Error" -> "error"
      [] a = "ECONNREFUSED" -> "econnrefused"
      [] OTHER -> a

\* String.prototype.toLowerCase
toLowerCase(s) == [i \in 1..Len(s) |-> LowerAtom(s[i])]

\* the status codes whose decimal text occurs in messages
StatusCodes == {401, 403, 404, 418, 422, 500, 502, 503, 504}

\* `${status}`
StatusText(n) == ToString(n)

\* an atom made of decimal digits only
IsDigits(a) == \E n \in StatusCodes : StatusText(n) = a

DigitsValue(a) == CHOOSE n \in StatusCodes : StatusText(n) = a

\* parseInt of the maximal run of digit atoms starting at position i (the
\* greedy (\d+) group); every digit atom has three digits
RECURSIVE ParseDigitRun(_, _, _)
ParseDigitRun(s, i, acc) ==
    IF i <= Len(s) /\ IsDigits(s[i])
    THEN ParseDigitRun(s, i + 1, acc * 1000 + DigitsValue(s[i]))
    ELSE acc

\* message.match(/HTTP (\d+)/): the positions where the expression matches
HttpMatches(s) ==
    {i \in 1..(Len(s) - 2) : s[i] = "HTTP" /\ s[i + 1] = " " /\ IsDigits(s[i + 2])}

Min(S) == CHOOSE x \in S : \A y \in S : x <= y

\* parseInt(statusMatch[1]) for the leftmost match
HttpStatusOf(s) == ParseDigitRun(s, Min(HttpMatches(s)) + 2, 0)

----------------------------------------------------------------------------
(* Caught values.  inst: `instanceof Error`; name: error.name ("" when     *)
(* undefined); message: error.message (<<>> when undefined or empty, which *)
(* the code never tells apart).  null and undefined are never thrown by    *)
(* fetch, Response.text or Response.json and are not modelled.             *)

ErrorValue(inst, name, message) == [inst |-> inst, name |-> name, message |-> message]

\* new Error(message)
NewError(message) == ErrorValue(TRUE, "Error", message)

----------------------------------------------------------------------------
(* Error classifier *)

isCorsError(e) ==
    LET message == toLowerCase(e.message) IN
    \/ Includes(message, <<"cors">>)
    \/ Includes(message, <<"cross-origin">>)
    \/ Includes(message, <<"access-control-allow-origin">>)
    \/ (e.name = "TypeError" /\ Includes(message, <<"failed to fetch">>))
    \/ (e.name = "TypeError" /\ Includes(message, <<"network", " request failed">>))

\* isNetworkError without its test of the error's name
isNetworkError_MessageOnly(e) ==
    LET message == toLowerCase(e.message) IN
    \/ Includes(message, <<"network">>)
    \/ Includes(message, <<"failed to fetch">>)
    \/ Includes(message, <<"connection">>)
    \/ Includes(message, <<"econnrefused">>)
    \/ Includes(message, <<"offline">>)

isNetworkError(e) ==
    LET message == toLowerCase(e.message) IN
    \/ (e.name = "TypeError" /\ ~isCorsError(e))
    \/ Includes(message, <<"network">>)
    \/ Includes(message, <<"failed to fetch">>)
    \/ Includes(message, <<"network", " request failed">>)
    \/ Includes(message, <<"network", "error">>)
    \/ Includes(message, <<"connection">>)
    \/ Includes(message, <<"econnrefused">>)
    \/ Includes(message, <<"offline">>)

Info(type, title, message, explanation, solutions) ==
    [type |-> type, title |-> title, message |-> message,
     explanation |-> explanation, solutions |-> solutions]

(* The catalogue: one ErrorInfo literal per return statement *)

UnauthorizedInfo(ctx) ==
    Info("unauthorized", <<"401 - Non autorise">>,
         <<"Authentification requise ou token invalide">>,
         IF ctx = "grist_sync"
         THEN <<"Le document Grist est prive et necessite un token API, ou votre token est invalide.">>
         ELSE <<"L'API necessite une authentification que votre backend doit gerer.">>,
         << IF ctx = "grist_sync"
            THEN <<"[ok] Ajoutez un token API Grist valide dans la configuration">>
            ELSE <<"[ok] Verifiez que votre backend gere correctement l'authentification">>,
            <<"[ok] Verifiez que le token n'a pas expire">>,
            <<"[ok] Verifiez les permissions du token">> >>)

ForbiddenInfo(ctx) ==
    Info("forbidden", <<"403 - Acces interdit">>,
         <<"Permissions insuffisantes">>,
         IF ctx = "grist_sync"
         THEN <<"Votre token API Grist n'a pas les permissions necessaires pour modifier ce document ou cette table.">>
         ELSE <<"Votre backend ou l'API distante refuse l'acces a cette ressource.">>,
         << <<"[ok] Verifiez que vous avez les droits d'acces sur le document/table">>,
            IF ctx = "grist_sync"
            THEN <<"[ok] Verifiez les permissions du token API dans les parametres Grist">>
            ELSE <<"[ok] Contactez l'administrateur de l'API pour obtenir les permissions">>,
            <<"[ok] Assurez-vous que le token utilise est le bon">> >>)

NotFoundInfo(ctx) ==
    Info("not_found", <<"404 - Ressource introuvable">>,
         <<"Document, table ou URL introuvable">>,
         IF ctx = "grist_sync"
         THEN <<"Le Document ID ou le Table ID specifie n'existe pas, ou l'URL de l'API Grist est incorrecte.">>
         ELSE <<"L'URL du backend est incorrecte ou la ressource n'existe pas.">>,
         << IF ctx = "grist_sync"
            THEN <<"[ok] Verifiez que le Document ID est correct (dans l'URL Grist)">>
            ELSE <<"[ok] Verifiez que l'URL du backend est correcte">>,
            IF ctx = "grist_sync"
            THEN <<"[ok] Verifiez que le Table ID correspond exactement au nom de la table (sensible a la casse)">>
            ELSE <<"[ok] Verifiez que l'endpoint existe">>,
            IF ctx = "grist_sync"
            THEN <<"[ok] Testez la connexion avec le bouton Tester la connexion Grist">>
            ELSE <<"[ok] Testez l'URL dans un navigateur ou avec un outil comme Postman">> >>)

UnprocessableInfo ==
    Info("unprocessable", <<"422 - Donnees invalides">>,
         <<"Erreur de validation des donnees">>,
         <<"Les donnees envoyees ne respectent pas le format attendu par l'API.">>,
         << <<"[ok] Verifiez que les types de donnees correspondent (texte, nombre, date, etc.)">>,
            <<"[ok] Verifiez que les colonnes Grist existent et sont correctement configurees">>,
            <<"[ok] Verifiez le mapping des champs entre l'API et Grist">>,
            <<"[ok] Consultez le journal de synchronisation pour plus de details">> >>)

ServerErrorInfo(status, ctx) ==
    Info("server_error", <<StatusText(status), " - Erreur serveur">>,
         <<"Le serveur a rencontre une erreur">>,
         IF ctx = "grist_sync"
         THEN <<"Le serveur Grist a rencontre une erreur interne. Cela peut etre temporaire.">>
         ELSE <<"Votre backend ou l'API distante a rencontre une erreur interne.">>,
         << <<"[ok] Reessayez dans quelques instants">>,
            <<"[ok] Verifiez le statut du service (Grist ou votre backend)">>,
            <<"[ok] Si le probleme persiste, contactez le support">>,
            <<"[ok] Consultez les logs du serveur pour plus d'informations">> >>)

OtherStatusInfo(status) ==
    Info("unknown", <<"Erreur ", "HTTP", " ", StatusText(status)>>,
         <<"Le serveur a renvoye une erreur ", StatusText(status)>>,
         <<"Une erreur HTTP inattendue s'est produite.">>,
         << <<"[ok] Consultez la documentation de l'API">>,
            <<"[ok] Verifiez la console du navigateur pour plus de details">>,
            <<"[ok] Contactez le support si necessaire">> >>)

CorsInfo(ctx) ==
    Info("cors", <<"Erreur ", "CORS", " (Cross-Origin Resource Sharing)">>,
         <<"La requete a ete bloquee par la politique ", "CORS", " du navigateur">>,
         IF ctx = "api_fetch"
         THEN <<"Votre backend n'autorise pas les requetes depuis ce domaine. Les navigateurs bloquent les requetes cross-origin pour des raisons de securite.">>
         ELSE <<"L'API Grist ou votre backend n'autorise pas les requetes depuis ce domaine.">>,
         << <<"[ok] Configurez votre backend pour autoriser les requetes ", "CORS", " depuis ce domaine">>,
            <<"[ok] Ajoutez les headers ", "CORS", " appropries : Access-Control-Allow-Origin">>,
            <<"[ok] Pour le developpement local, utilisez un proxy ou configurez votre serveur">>,
            <<"[!] Evitez d'utiliser des extensions pour desactiver ", "CORS", " en production">> >>)

NetworkInfo ==
    Info("network", <<"Erreur de connexion reseau">>,
         <<"Impossible de se connecter au serveur">>,
         <<"Le serveur est injoignable. Cela peut etre du a une connexion internet interrompue, une URL incorrecte, ou un serveur hors ligne.">>,
         << <<"[ok] Verifiez votre connexion internet">>,
            <<"[ok] Verifiez que l'URL est correcte et accessible">>,
            <<"[ok] Verifiez que le serveur est en ligne">>,
            <<"[ok] Verifiez qu'il n'y a pas de pare-feu bloquant la connexion">> >>)

InvalidJsonInfo ==
    Info("invalid_json", <<"Erreur de format de donnees">>,
         <<"La reponse du serveur n'est pas au format ", "JSON", " valide">>,
         <<"Le serveur a renvoye des donnees qui ne peuvent pas etre interpretees comme du JSON.">>,
         << <<"[ok] Verifiez que l'URL pointe vers une API ", "JSON">>,
            <<"[ok] Verifiez que le serveur renvoie bien du ", "JSON", " et non du HTML ou du texte">>,
            <<"[ok] Consultez la console du navigateur (F12) pour voir la reponse brute">> >>)

TimeoutInfo ==
    Info("timeout", <<"Delai d'attente depasse">>,
         <<"Le serveur met trop de temps a repondre">>,
         <<"La requete a pris trop de temps et a ete annulee.">>,
         << <<"[ok] Verifiez que le serveur fonctionne correctement">>,
            <<"[ok] Reessayez plus tard">>,
            <<"[ok] Verifiez qu'il n'y a pas de probleme de performance cote serveur">> >>)

\* error.message || 'Une erreur inconnue s'est produite'
UnknownInfo(e) ==
    Info("unknown", <<"Erreur inattendue">>,
         IF e.message # <<>> THEN e.message ELSE <<"Une erreur inconnue s'est produite">>,
         <<"Une erreur imprevue s'est produite. Consultez les details techniques ci-dessous.">>,
         << <<"[ok] Verifiez la console du navigateur (F12) pour plus de details">>,
            <<"[ok] Reessayez l'operation">>,
            <<"[ok] Contactez le support si le probleme persiste">> >>)

\* analyzeHttpError with `case 502:` left out of the server-error group
analyzeHttpError_Missing502(status, e, ctx) ==
    CASE status = 401 -> UnauthorizedInfo(ctx)
      [] status = 403 -> ForbiddenInfo(ctx)
      [] status = 404 -> NotFoundInfo(ctx)
      [] status = 422 -> UnprocessableInfo
      [] status \in {500, 503, 504} -> ServerErrorInfo(status, ctx)
      [] OTHER -> OtherStatusInfo(status)

\* analyzeHttpError where the 404 diagnosis is reserved to the Grist context
analyzeHttpError_ContextKind(status, e, ctx) ==
    CASE status = 401 -> UnauthorizedInfo(ctx)
      [] status = 403 -> ForbiddenInfo(ctx)
      [] status = 404 /\ ctx = "grist_sync" -> NotFoundInfo(ctx)
      [] status = 422 -> UnprocessableInfo
      [] status \in {500, 502, 503, 504} -> ServerErrorInfo(status, ctx)
      [] OTHER -> OtherStatusInfo(status)

\* switch (status)
analyzeHttpError(status, e, ctx) ==
    CASE status = 401 -> UnauthorizedInfo(ctx)
      [] status = 403 -> ForbiddenInfo(ctx)
      [] status = 404 -> NotFoundInfo(ctx)
      [] status = 422 -> UnprocessableInfo
      [] status \in {500, 502, 503, 504} -> ServerErrorInfo(status, ctx)
      [] OTHER -> OtherStatusInfo(status)

\* error.message && error.message.includes('HTTP'), then the match
HasHttpStatus(e) ==
    e.message # <<>> /\ Includes(e.message, <<"HTTP">>) /\ HttpMatches(e.message) # {}

\* error.message && (includes('JSON') || includes('parse'))
IsJsonError(e) ==
    e.message # <<>> /\ (Includes(e.message, <<"JSON">>) \/ Includes(e.message, <<"parse">>))

\* error.message && error.message.toLowerCase().includes('timeout')
IsTimeoutError(e) ==
    e.message # <<>> /\ Includes(toLowerCase(e.message), <<"timeout">>)

\* analyzeError with the timeout test moved before the HTTP-status test
analyzeError_TimeoutFirst(e, ctx) ==
    IF isCorsError(e) THEN CorsInfo(ctx)
    ELSE IF isNetworkError(e) THEN NetworkInfo
    ELSE IF IsTimeoutError(e) THEN TimeoutInfo
    ELSE IF HasHttpStatus(e) THEN analyzeHttpError(HttpStatusOf(e.message), e, ctx)
    ELSE IF IsJsonError(e) THEN InvalidJsonInfo
    ELSE UnknownInfo(e)

analyzeError(e, ctx) ==
    IF isCorsError(e) THEN CorsInfo(ctx)
    ELSE IF isNetworkError(e) THEN NetworkInfo
    ELSE IF HasHttpStatus(e) THEN analyzeHttpError(HttpStatusOf(e.message), e, ctx)
    ELSE IF IsJsonError(e) THEN InvalidJsonInfo
    ELSE IF IsTimeoutError(e) THEN TimeoutInfo
    ELSE UnknownInfo(e)

\* `${errorInfo.message} - ${errorInfo.solutions[0]}`
formatErrorShort(info) == info.message \o <<" - ">> \o info.solutions[1]

----------------------------------------------------------------------------
(* Values exchanged with the Grist API.  A JSON object is kept as the      *)
(* sequence of its entries in key order, a JSON scalar as its type and its *)
(* text.                                                                   *)

Scalar(t, v) == [t |-> t, v |-> v]
Entry(k, v) == [key |-> k, value |-> v]

\* Object.keys(record)
ObjectKeys(record) == [i \in 1..Len(record) |-> record[i].key]

\* record[key] for a key of the record
ValueOf(record, key) ==
    record[CHOOSE i \in 1..Len(record) : record[i].key = key].value

HasKey(record, key) == \E i \in 1..Len(record) : record[i].key = key

\* a column of GET /columns: {id, fields: {colId, ...}}; noFields marks an
\* entry without a fields object, colId "undefined" a fields object without colId
Column(id, hasFields, colId) == [id |-> id, hasFields |-> hasFields, colId |-> colId]

\* a parsed response body: null, or an object with optional columns / records
NullData == [type |-> "null"]
ObjectData(hasColumns, columns, hasRecords, recs) ==
    [type |-> "object", hasColumns |-> hasColumns, columns |-> columns,
     hasRecords |-> hasRecords, records |-> recs]

\* what fetch does: it rejects, or resolves to a response with a status, a
\* body text, and a body that parses as JSON (hasJson) or not
Rejects(e) == [kind |-> "reject", error |-> e]
Responds(status, text, hasJson, data) ==
    [kind |-> "response", status |-> status, text |-> text, hasJson |-> hasJson, data |-> data]

\* response.ok
Ok(resp) == resp.status >= 200 /\ resp.status <= 299

\* the rejection of response.json() on a body that is not JSON
JsonSyntaxError == ErrorValue(TRUE, "SyntaxError", <<"Unexpected token < in ", "JSON", " at position 0">>)

\* reading a property of null / undefined
NullPropertyError(what) == ErrorValue(TRUE, "TypeError", <<"Cannot read properties of ", what>>)

----------------------------------------------------------------------------
(* Destination client.  An operation is a function of the client's config, *)
(* the behaviour of its sink and the answers of the network (net, one      *)
(* answer per endpoint and method); it yields the fetch calls it issued,   *)
(* the calls the sink received, and its outcome.                           *)

Return(v) == [kind |-> "return", value |-> v]
Throw(e) == [kind |-> "throw", error |-> e]
Run(reqs, lgs, out) == [requests |-> reqs, logs |-> lgs, outcome |-> out]

\* what a raising sink raises
SinkError == ErrorValue(TRUE, "Error", <<"sink failure">>)

\* this.onLog is set
HasSink(sink) == sink # "undefined"

\* the sink raises when called with this type of message
SinkThrows(sink, type) ==
    sink = "throws" \/ (sink = "throwsOnError" /\ type = "error")

\* log(message, type): the call the sink receives, if any
log(sink, message, type) ==
    IF HasSink(sink) THEN << [message |-> message, type |-> type] >> ELSE <<>>

buildApiUrl(cfg, endpoint) ==
    << IF cfg.gristApiUrl \in {"undefined", ""} THEN "https://docs.getgrist.com" ELSE cfg.gristApiUrl,
       "/api/docs/", cfg.docId, "/tables/", cfg.tableId, endpoint >>

\* buildHeaders attaching the credential whether or not a token is configured
buildHeaders_AlwaysBearer(cfg) ==
    [ContentType |-> "application/json", Authorization |-> <<"Bearer ", cfg.apiTokenGrist>>]

buildHeaders(cfg) ==
    IF cfg.apiTokenGrist \notin {"undefined", ""}
    THEN [ContentType |-> "application/json", Authorization |-> <<"Bearer ", cfg.apiTokenGrist>>]
    ELSE [ContentType |-> "application/json"]

\* one call of fetch
Fetch(method, url, headers, body) ==
    [method |-> method, url |-> url, headers |-> headers, body |-> body]

NoBody == [kind |-> "none"]

\* ReadJson raising the response text alone for a non-success status
ReadJson_BodyOnly(resp) ==
    IF resp.kind = "reject" THEN Throw(resp.error)
    ELSE IF ~Ok(resp) THEN Throw(NewError(resp.text))
    ELSE IF ~resp.hasJson THEN Throw(JsonSyntaxError)
    ELSE Return(resp.data)

\* the body of the try block after fetch: the !response.ok test, then
\* response.json()
ReadJson(resp) ==
    IF resp.kind = "reject" THEN Throw(resp.error)
    ELSE IF ~Ok(resp)
         THEN Throw(NewError(<<"Erreur ", "HTTP", " ", StatusText(resp.status), ": ">> \o resp.text))
    ELSE IF ~resp.hasJson THEN Throw(JsonSyntaxError)
    ELSE Return(resp.data)

\* the sink is set and raises on a message of this type
Raises(sink, type) == HasSink(sink) /\ SinkThrows(sink, type)

\* one call of this.log as a step of an operation: log() does not guard the
\* call of the sink, whose exception leaves log() and the statement
LogStep(sink, message, type) ==
    Run(<<>>, log(sink, message, type),
        IF Raises(sink, type) THEN Throw(SinkError) ELSE Return("undefined"))

\* r then s: the requests and the logs of both, the outcome of s
Chain(r, s) == Run(r.requests \o s.requests, r.logs \o s.logs, s.outcome)

\* two statements in sequence: s runs unless r raised
AndThen(r, s) == IF r.outcome.kind = "throw" THEN r ELSE Chain(r, s)

\* `${errorInfo.message} - ${errorInfo.solutions[0]}`
RaisedMessage(info) == info.message \o <<" - ">> \o info.solutions[1]

\* Rethrow raising the classifier's message without the remediation step
Rethrow_MessageOnly(e) ==
    IF e.inst THEN Throw(NewError(analyzeError(e, "grist_sync").message))
    ELSE Throw(e)

\* the end of every catch block: classify, re-raise
Rethrow(e) ==
    IF e.inst THEN Throw(NewError(RaisedMessage(analyzeError(e, "grist_sync"))))
    ELSE Throw(e)

\* the two this.log calls of the catch block of addRecords and addColumns
LogDiagnosis(sink, info) ==
    AndThen(LogStep(sink, info.title \o <<": ">> \o info.message, "error"),
        LogStep(sink, <<"(hint) ">> \o info.solutions[1], "error"))

\* the catch block of addRecords and addColumns: classify, log twice, re-raise
LogAndRethrow(sink, e) ==
    AndThen(LogDiagnosis(sink, analyzeError(e, "grist_sync")), Run(<<>>, <<>>, Rethrow(e)))

\* try { ... } catch of addRecords and addColumns around the outcome of the try block
CatchAndLog(sink, tried) ==
    IF tried.kind = "throw" THEN LogAndRethrow(sink, tried.error) ELSE Run(<<>>, <<>>, tried)

\* Catch without a catch block: the failure of the try block leaves as it is
Catch_Raw(tried) == tried

\* try { ... } catch of getRecords and getColumns around the outcome of the try block
Catch(tried) == IF tried.kind = "throw" THEN Rethrow(tried.error) ELSE tried

\* data.columns, data.records: reading a property of a null body raises
ReadProperty(body, reading) ==
    IF body.kind = "return" /\ body.value.type = "null"
    THEN Throw(NullPropertyError(reading))
    ELSE body

\* return data.columns || []
ColumnsOf(out) ==
    IF out.kind = "throw" THEN out
    ELSE IF out.value.hasColumns THEN Return(out.value.columns)
    ELSE Return(<<>>)

getColumns(cfg, net) ==
    Run(<<Fetch("GET", buildApiUrl(cfg, "/columns"), buildHeaders(cfg), NoBody)>>, <<>>,
        ColumnsOf(Catch(ReadProperty(ReadJson(net.getColumns), "null (reading 'columns')"))))

\* columns.map(col => ({id, fields: {colId, label: label || id, type: type || 'Text'}}))
ColumnsBody(columns) ==
    [kind |-> "columns",
     columns |-> [i \in 1..Len(columns) |->
        [id |-> columns[i].id,
         fields |-> [colId |-> columns[i].id,
                     label |-> IF columns[i].label \in {"undefined", ""} THEN columns[i].id ELSE columns[i].label,
                     type |-> IF columns[i].type \in {"undefined", ""} THEN "Text" ELSE columns[i].type]]]]

\* a fetch call was issued
Sent(req) == Run(<<req>>, <<>>, Return("undefined"))

addColumns(cfg, sink, net, columns) ==
    IF Len(columns) = 0
    THEN Run(<<>>, <<>>, Return(ObjectData(TRUE, <<>>, FALSE, <<>>)))
    ELSE Chain(Sent(Fetch("POST", buildApiUrl(cfg, "/columns"), buildHeaders(cfg), ColumnsBody(columns))),
              CatchAndLog(sink, ReadJson(net.postColumns)))

\* the number of leading records inferColumnType looks at: records.slice(0, 10)
ScanWindow == 10

\* the number of decimal digits of an atom made of digits only, 0 for any other atom
DigitCount(a) ==
    CASE a \in {"1", "5"} -> 1
      [] a \in {"01", "15", "85"} -> 2
      [] a \in {"2024"} -> 4
      [] OTHER -> 0

\* Number.isInteger on the text of a number
IsIntegerText(v) == \A i \in 1..Len(v) : v[i] # "."

\* /^\d{4}-\d{2}-\d{2}/.test(value)
DateRegexTest(v) ==
    /\ Len(v) >= 5
    /\ DigitCount(v[1]) = 4
    /\ v[2] = "-"
    /\ DigitCount(v[3]) = 2
    /\ v[4] = "-"
    /\ DigitCount(v[5]) >= 2

\* InferFrom looking at every record
RECURSIVE InferFrom_NoWindow(_, _, _)
InferFrom_NoWindow(recs, columnName, i) ==
    IF i > Len(recs) THEN "Text"
    ELSE LET value == IF HasKey(recs[i], columnName)
                      THEN ValueOf(recs[i], columnName)
                      ELSE Scalar("undefined", <<>>)
         IN IF value.t \in {"null", "undefined"} THEN InferFrom_NoWindow(recs, columnName, i + 1)
            ELSE IF value.t = "number"
                 THEN (IF IsIntegerText(value.v) THEN "Int" ELSE "Numeric")
            ELSE IF value.t = "boolean" THEN "Bool"
            ELSE IF value.t = "string" /\ DateRegexTest(value.v) THEN "DateTime"
            ELSE "Text"

RECURSIVE InferFrom(_, _, _)
InferFrom(recs, columnName, i) ==
    IF i > Len(recs) \/ i > ScanWindow THEN "Text"
    ELSE LET value == IF HasKey(recs[i], columnName)
                      THEN ValueOf(recs[i], columnName)
                      ELSE Scalar("undefined", <<>>)
         IN IF value.t \in {"null", "undefined"} THEN InferFrom(recs, columnName, i + 1)
            ELSE IF value.t = "number"
                 THEN (IF IsIntegerText(value.v) THEN "Int" ELSE "Numeric")
            ELSE IF value.t = "boolean" THEN "Bool"
            ELSE IF value.t = "string" /\ DateRegexTest(value.v) THEN "DateTime"
            ELSE "Text"

inferColumnType(recs, columnName) == InferFrom(recs, columnName, 1)

Range(seq) == {seq[i] : i \in 1..Len(seq)}

\* Set.add on the insertion-ordered set of required columns
SetAdd(seq, k) == IF k \in Range(seq) THEN seq ELSE Append(seq, k)

RECURSIVE AddAll(_, _, _)
AddAll(seq, keys, i) ==
    IF i > Len(keys) THEN seq ELSE AddAll(SetAdd(seq, keys[i]), keys, i + 1)

\* the two nested loops filling requiredColumns
RECURSIVE RequiredColumns(_, _, _)
RequiredColumns(recs, i, acc) ==
    IF i > Len(recs) THEN acc
    ELSE RequiredColumns(recs, i + 1, AddAll(acc, ObjectKeys(recs[i]), 1))

\* new Set(existingColumns.map(col => col.fields.colId))
ExistingColumnIds(existingColumns) ==
    {existingColumns[i].colId : i \in 1..Len(existingColumns)}

\* MissingColumns without the filter on the existing columns
MissingColumns_NoFilter(recs, existingColumns) ==
    RequiredColumns(recs, 1, <<>>)

\* Array.from(requiredColumns).filter(col => !existingColumnIds.has(col))
MissingColumns(recs, existingColumns) ==
    SelectSeq(RequiredColumns(recs, 1, <<>>),
              LAMBDA col : col \notin ExistingColumnIds(existingColumns))

\* missingColumns.map(id => ({id, label: id, type: this.inferColumnType(records, id)}))
ColumnsToCreate(recs, missing) ==
    [i \in 1..Len(missing) |->
        [id |-> missing[i], label |-> missing[i], type |-> inferColumnType(recs, missing[i])]]

\* Array.prototype.join(', ')
RECURSIVE Join(_, _)
Join(names, i) ==
    IF i > Len(names) THEN <<>>
    ELSE IF i = Len(names) THEN <<names[i]>>
    ELSE <<names[i], ", ">> \o Join(names, i + 1)

\* the try block of ensureColumnsExist, from the creation of the missing columns on
EnsureCreate(cfg, sink, net, recs, missing) ==
    IF Len(missing) > 0
    THEN AndThen(LogStep(sink, <<"Creation de ", ToString(Len(missing)), " colonne(s) manquante(s): ">>
                           \o Join(missing, 1), "info"),
         AndThen(addColumns(cfg, sink, net, ColumnsToCreate(recs, missing)),
             LogStep(sink, <<"Colonnes creees avec succes!">>, "success")))
    ELSE LogStep(sink, <<"Toutes les colonnes necessaires existent deja">>, "success")

\* existingColumns.map(col => col.fields.colId): a column without fields raises
ReadColIds(existingColumns) ==
    Run(<<>>, <<>>,
        IF \E i \in 1..Len(existingColumns) : ~existingColumns[i].hasFields
        THEN Throw(NullPropertyError("undefined (reading 'colId')"))
        ELSE Return("undefined"))

\* the try block of ensureColumnsExist once getColumns returned
EnsureListed(cfg, sink, net, recs, existingColumns) ==
    AndThen(ReadColIds(existingColumns),
    AndThen(LogStep(sink, <<ToString(Len(existingColumns)), " colonne(s) existante(s) detectee(s)">>, "success"),
        EnsureCreate(cfg, sink, net, recs, MissingColumns(recs, existingColumns))))

\* the try block of ensureColumnsExist from `await this.getColumns()` on
EnsureList(cfg, sink, net, recs, g) ==
    IF g.outcome.kind = "throw" THEN g
    ELSE Chain(g, EnsureListed(cfg, sink, net, recs, g.outcome.value))

\* the try block of ensureColumnsExist
EnsureTry(cfg, sink, net, recs) ==
    AndThen(LogStep(sink, <<"Verification des colonnes existantes...">>, "info"),
        EnsureList(cfg, sink, net, recs, getColumns(cfg, net)))

\* the catch block of ensureColumnsExist: an Error is logged, nothing is re-raised
EnsureCatch(sink, t) ==
    IF t.outcome.kind # "throw" THEN t
    ELSE IF t.outcome.error.inst
         THEN Chain(t, LogStep(sink, <<"Avertissement lors de la creation automatique des colonnes: ">>
                                    \o t.outcome.error.message, "error"))
    ELSE Run(t.requests, t.logs, Return("undefined"))

\* recs: [present, items], present = FALSE for a null / undefined argument
ensureColumnsExist(cfg, sink, net, recs) ==
    IF ~recs.present \/ Len(recs.items) = 0 THEN Run(<<>>, <<>>, Return("undefined"))
    ELSE EnsureCatch(sink, EnsureTry(cfg, sink, net, recs.items))

\* RecordsBody posting the records in reverse order
RecordsBody_Reversed(recs) ==
    [kind |-> "records", records |-> [i \in 1..Len(recs) |-> [fields |-> recs[Len(recs) + 1 - i]]]]

\* {records: records.map(fields => ({fields}))}
RecordsBody(recs) ==
    [kind |-> "records", records |-> [i \in 1..Len(recs) |-> [fields |-> recs[i]]]]

\* if (this.config.autoCreateColumns !== false) await this.ensureColumnsExist(records)
ColumnStep(cfg, sink, net, recs) ==
    IF cfg.autoCreateColumns # "false"
    THEN ensureColumnsExist(cfg, sink, net, recs)
    ELSE Run(<<>>, <<>>, Return("undefined"))

\* the POST of the records and the catch block around it
InsertStep(cfg, sink, net, recs) ==
    Chain(Sent(Fetch("POST", buildApiUrl(cfg, "/records"), buildHeaders(cfg), RecordsBody(recs.items))),
         CatchAndLog(sink, ReadJson(net.postRecords)))

\* addRecords without the test on an empty input
addRecords_NoEmptyCheck(cfg, sink, net, recs) ==
    AndThen(ColumnStep(cfg, sink, net, recs), InsertStep(cfg, sink, net, recs))

\* addRecords posting the records before it runs the column step
addRecords_InsertFirst(cfg, sink, net, recs) ==
    IF ~recs.present \/ Len(recs.items) = 0
    THEN Run(<<>>, <<>>, Throw(NewError(<<"Aucun enregistrement a ajouter">>)))
    ELSE AndThen(InsertStep(cfg, sink, net, recs), ColumnStep(cfg, sink, net, recs))

addRecords(cfg, sink, net, recs) ==
    IF ~recs.present \/ Len(recs.items) = 0
    THEN Run(<<>>, <<>>, Throw(NewError(<<"Aucun enregistrement a ajouter">>)))
    ELSE AndThen(ColumnStep(cfg, sink, net, recs), InsertStep(cfg, sink, net, recs))

\* return data.records || []
RecordsOf(out) ==
    IF out.kind = "throw" THEN out
    ELSE IF out.value.hasRecords THEN Return(out.value.records)
    ELSE Return(<<>>)

\* limit = 0 stands for an omitted (or zero) limit: `if (limit)`
getRecords(cfg, net, limit) ==
    Run(<<Fetch("GET",
                buildApiUrl(cfg, IF limit # 0 THEN "/records?limit=" \o ToString(limit) ELSE "/records"),
                buildHeaders(cfg), NoBody)>>,
        <<>>,
        RecordsOf(Catch(ReadProperty(ReadJson(net.getRecords), "null (reading 'records')"))))

\* Succeeded without the catch block
Succeeded_NoCatch(g) ==
    Run(g.requests, <<>>, IF g.outcome.kind = "return" THEN Return(TRUE) ELSE g.outcome)

\* try { await this.getRecords(1); return true } catch { return false }
Succeeded(g) == Run(g.requests, <<>>, Return(g.outcome.kind = "return"))

testConnection(cfg, net) == Succeeded(getRecords(cfg, net, 1))

\* validateApiToken without its catch block
validateApiToken_NoCatch(cfg, net) ==
    LET req == Fetch("GET", buildApiUrl(cfg, "/records?limit=1"), buildHeaders(cfg), NoBody)
        resp == net.getRecords
        Result(valid, message, needsAuth) ==
            Return([valid |-> valid, message |-> message, needsAuth |-> needsAuth])
    IN Run(<<req>>, <<>>,
           IF resp.kind = "reject"
           THEN Throw(resp.error)
           ELSE IF resp.status = 401 THEN Result(FALSE, <<"Document prive - Token API requis">>, TRUE)
           ELSE IF resp.status = 403 THEN Result(FALSE, <<"Token API invalide ou permissions insuffisantes">>, TRUE)
           ELSE IF Ok(resp)
                THEN (IF cfg.apiTokenGrist \notin {"undefined", ""}
                      THEN Result(TRUE, <<"Token API valide et authentifie">>, FALSE)
                      ELSE Result(TRUE, <<"Document public - Aucune authentification requise">>, FALSE))
           ELSE Result(FALSE, <<"Erreur ", "HTTP", " ", StatusText(resp.status)>>,
                       resp.status = 401 \/ resp.status = 403))

validateApiToken(cfg, net) ==
    LET req == Fetch("GET", buildApiUrl(cfg, "/records?limit=1"), buildHeaders(cfg), NoBody)
        resp == net.getRecords
        Result(valid, message, needsAuth) ==
            Return([valid |-> valid, message |-> message, needsAuth |-> needsAuth])
    IN Run(<<req>>, <<>>,
           IF resp.kind = "reject"
           THEN Result(FALSE, IF resp.error.inst THEN resp.error.message ELSE <<"Erreur de connexion">>, FALSE)
           ELSE IF resp.status = 401 THEN Result(FALSE, <<"Document prive - Token API requis">>, TRUE)
           ELSE IF resp.status = 403 THEN Result(FALSE, <<"Token API invalide ou permissions insuffisantes">>, TRUE)
           ELSE IF Ok(resp)
                THEN (IF cfg.apiTokenGrist \notin {"undefined", ""}
                      THEN Result(TRUE, <<"Token API valide et authentifie">>, FALSE)
                      ELSE Result(TRUE, <<"Document public - Aucune authentification requise">>, FALSE))
           ELSE Result(FALSE, <<"Erreur ", "HTTP", " ", StatusText(resp.status)>>,
                       resp.status = 401 \/ resp.status = 403))

----------------------------------------------------------------------------
(* The mapper (mapping.ts).  A JavaScript value is a record tagged by t:   *)
(* undefined, null, string, number, boolean (v: its text as atoms), date   *)
(* (v: its ISO text, <<>> for an Invalid Date), array (items) and object   *)
(* (entries in insertion order; cyclic marks an object that holds a        *)
(* reference to itself).  A dotted path is the sequence of its key atoms   *)
(* separated by "." atoms.  No key of the model names a built-in property  *)
(* of a primitive or of an array.  Each function yields Return(value) or   *)
(* Throw(error).                                                           *)

Undefined == Scalar("undefined", <<>>)
Null == Scalar("null", <<>>)
Str(s) == Scalar("string", s)
Num(s) == Scalar("number", s)
Bool(b) == Scalar("boolean", <<b>>)
DateValue(iso) == Scalar("date", iso)
Arr(items) == [t |-> "array", items |-> items]
Obj(entries, cyclic) == [t |-> "object", entries |-> entries, cyclic |-> cyclic]

\* !value
Falsy(value) ==
    \/ value.t \in {"undefined", "null"}
    \/ value.t = "string" /\ value.v = <<>>
    \/ value.t = "number" /\ value.v = <<"0">>
    \/ value.t = "boolean" /\ value.v = <<"false">>

\* value !== null && typeof value === 'object'
IsObjectType(value) == value.t \in {"object", "array", "date"}

\* the values directly held by an array or an object
Children(value) ==
    IF value.t = "array" THEN value.items
    ELSE IF value.t = "object" THEN [i \in 1..Len(value.entries) |-> value.entries[i].value]
    ELSE <<>>

\* JSON.stringify raises on this value: it reaches an object holding a reference to itself
RECURSIVE Unrenderable(_)
Unrenderable(value) ==
    \/ value.t = "object" /\ value.cyclic
    \/ \E i \in 1..Len(Children(value)) : Unrenderable(Children(value)[i])

\* pieces of text joined by a separator
RECURSIVE JoinWith(_, _, _)
JoinWith(texts, sep, i) ==
    IF i > Len(texts) THEN <<>>
    ELSE IF i = Len(texts) THEN texts[i]
    ELSE texts[i] \o <<sep>> \o JoinWith(texts, sep, i + 1)

\* the text JSON.stringify gives for a value it can render; a member of an
\* object whose value is undefined is left out, an undefined element of an
\* array and an Invalid Date are rendered as null
RECURSIVE JsonText(_)
JsonText(value) ==
    CASE value.t = "string" -> <<"\"">> \o value.v \o <<"\"">>
      [] value.t \in {"number", "boolean"} -> value.v
      [] value.t \in {"null", "undefined"} -> <<"null">>
      [] value.t = "date" -> IF value.v = <<>> THEN <<"null">> ELSE <<"\"">> \o value.v \o <<"\"">>
      [] value.t = "array" ->
           <<"[">> \o JoinWith([i \in 1..Len(value.items) |-> JsonText(value.items[i])], ",", 1) \o <<"]">>
      [] value.t = "object" ->
           <<"{">>
           \o JoinWith([i \in 1..Len(SelectSeq(value.entries, LAMBDA en : en.value.t # "undefined")) |->
                          <<"\"", SelectSeq(value.entries, LAMBDA en : en.value.t # "undefined")[i].key, "\"", ":">>
                          \o JsonText(SelectSeq(value.entries, LAMBDA en : en.value.t # "undefined")[i].value)],
                       ",", 1)
           \o <<"}">>

CircularError == ErrorValue(TRUE, "TypeError", <<"Converting circular structure to ", "JSON">>)
InvalidTimeError == ErrorValue(TRUE, "RangeError", <<"Invalid time value">>)

\* JSON.stringify(value) for an array or an object
stringify(value) ==
    IF Unrenderable(value) THEN Throw(CircularError) ELSE Return(Str(JsonText(value)))

\* Date.prototype.toString of the dates of the model
DateText(iso) ==
    IF iso = <<>> THEN <<"Invalid Date">> ELSE <<"Mon Jan 15 2024 00:00:00 GMT+0000 (UTC)">>

\* String(item) for an item that is no array and no plain object
StringOf(item) ==
    CASE item.t \in {"string", "number", "boolean"} -> item.v
      [] item.t = "null" -> <<"null">>
      [] item.t = "undefined" -> <<"undefined">>
      [] item.t = "date" -> DateText(item.v)

\* the callback of value.map in serializeValue
ItemText(item) ==
    IF item.t \in {"object", "array"} THEN JsonText(item) ELSE StringOf(item)

\* serializeValue passing arrays and objects through unchanged
serializeValue_Passthrough(value) ==
    IF value.t = "date"
    THEN (IF value.v = <<>> THEN Throw(InvalidTimeError) ELSE Return(Str(value.v)))
    ELSE Return(value)

serializeValue(value) ==
    IF value.t \in {"null", "undefined"} THEN Return(value)
    ELSE IF value.t = "date"
         THEN (IF value.v = <<>> THEN Throw(InvalidTimeError) ELSE Return(Str(value.v)))
    ELSE IF value.t = "array"
         THEN (IF Len(value.items) = 0 THEN Return(Str(<<>>))
               ELSE IF \E i \in 1..Len(value.items) : Unrenderable(value.items[i]) THEN Throw(CircularError)
               ELSE Return(Str(JoinWith([i \in 1..Len(value.items) |-> ItemText(value.items[i])], ";", 1))))
    ELSE IF value.t = "object" THEN stringify(value)
    ELSE Return(value)

\* path.split('.')
RECURSIVE SplitFrom(_, _, _, _)
SplitFrom(path, i, key, keys) ==
    IF i > Len(path) THEN Append(keys, key)
    ELSE IF path[i] = "." THEN SplitFrom(path, i + 1, "", Append(keys, key))
    ELSE SplitFrom(path, i + 1, key \o path[i], keys)

Split(path) == SplitFrom(path, 1, "", <<>>)

\* the index an array key stands for, 0 for a key that is no index
IndexOf(key) ==
    CASE key = "0" -> 1
      [] key = "1" -> 2
      [] key = "2" -> 3
      [] OTHER -> 0

\* current[key]; the member "self" of an object marked cyclic is the object itself
Property(current, key) ==
    IF current.t = "object"
    THEN (IF current.cyclic /\ key = "self" THEN current
          ELSE IF HasKey(current.entries, key) THEN ValueOf(current.entries, key)
          ELSE Undefined)
    ELSE IF current.t = "array"
         THEN (IF IndexOf(key) \in 1..Len(current.items) THEN current.items[IndexOf(key)] ELSE Undefined)
    ELSE Undefined

\* the loop of getNestedValue
RECURSIVE Walk(_, _, _)
Walk(current, keys, i) ==
    IF i > Len(keys) THEN current
    ELSE IF current.t \in {"null", "undefined"} THEN Undefined
    ELSE Walk(Property(current, keys[i]), keys, i + 1)

getNestedValue(obj, path) ==
    IF path = <<>> \/ Falsy(obj) THEN Undefined
    ELSE Walk(obj, Split(path), 1)

\* a FieldMapping; "undefined" stands for an absent property, <<>> for an
\* absent or empty apiField; NullMapping is a null entry of the list
Mapping(gristColumn, apiField, enabled, transform) ==
    [kind |-> "mapping", gristColumn |-> gristColumn, apiField |-> apiField,
     enabled |-> enabled, transform |-> transform]
NullMapping == [kind |-> "null"]

\* the custom transforms of the model: the identity, a function returning a
\* fixed text, a function that raises
TransformFunctions == {"identity", "label", "throws"}

TransformError == ErrorValue(TRUE, "Error", <<"transform failure">>)

\* mapping.transform(value)
CallTransform(f, value) ==
    CASE f = "identity" -> Return(value)
      [] f = "label" -> Return(Str(<<"x">>))
      [] f = "throws" -> Throw(TransformError)

\* the value a mapping gives: the custom transform if it is a function, else the serializer
MappedValue(apiRecord, mapping) ==
    IF mapping.transform \in TransformFunctions
    THEN CallTransform(mapping.transform, getNestedValue(apiRecord, mapping.apiField))
    ELSE serializeValue(getNestedValue(apiRecord, mapping.apiField))

\* gristRecord[key] = value: a key already there keeps its place
Put(rec, key, value) ==
    IF HasKey(rec, key)
    THEN [i \in 1..Len(rec) |-> IF rec[i].key = key THEN Entry(key, value) ELSE rec[i]]
    ELSE Append(rec, Entry(key, value))

\* if (!mapping.gristColumn || !mapping.apiField) continue
Skipped(mapping) == mapping.gristColumn \in {"undefined", ""} \/ mapping.apiField = <<>>

\* Disabled letting every mapping through
Disabled_Never(mapping) == FALSE

\* if (mapping.enabled === false) continue
Disabled(mapping) == mapping.enabled = "false"

NullMappingError ==
    ErrorValue(TRUE, "TypeError", <<"Cannot read properties of null (reading 'gristColumn')">>)
NotIterableError == ErrorValue(TRUE, "TypeError", <<"mappings is not iterable">>)

\* the loop of transformRecord from the i-th mapping on
RECURSIVE TransformFrom(_, _, _, _)

\* the end of one iteration: the value computed for the i-th mapping is stored, or its exception leaves
Store(apiRecord, mappings, i, gristRecord, computed) ==
    IF computed.kind = "throw" THEN computed
    ELSE TransformFrom(apiRecord, mappings, i + 1, Put(gristRecord, mappings[i].gristColumn, computed.value))

TransformFrom(apiRecord, mappings, i, gristRecord) ==
    IF i > Len(mappings) THEN Return(gristRecord)
    ELSE IF mappings[i].kind = "null" THEN Throw(NullMappingError)
    ELSE IF Skipped(mappings[i]) \/ Disabled(mappings[i])
         THEN TransformFrom(apiRecord, mappings, i + 1, gristRecord)
    ELSE Store(apiRecord, mappings, i, gristRecord, MappedValue(apiRecord, mappings[i]))

\* mappings: [present, items], present = FALSE for a null / undefined argument
transformRecord(apiRecord, mappings) ==
    IF ~mappings.present THEN Throw(NotIterableError)
    ELSE TransformFrom(apiRecord, mappings.items, 1, <<>>)

\* apiRecords.map(record => transformRecord(record, mappings))
RECURSIVE MapTransform(_, _, _, _)

MapStep(apiRecords, mappings, i, done, transformed) ==
    IF transformed.kind = "throw" THEN transformed
    ELSE MapTransform(apiRecords, mappings, i + 1, Append(done, transformed.value))

MapTransform(apiRecords, mappings, i, done) ==
    IF i > Len(apiRecords) THEN Return(done)
    ELSE MapStep(apiRecords, mappings, i, done, transformRecord(apiRecords[i], mappings))

transformRecords(apiRecords, mappings) ==
    IF apiRecords.t # "array" THEN Return(<<>>)
    ELSE MapTransform(apiRecords.items, mappings, 1, <<>>)

\* !!(mapping.gristColumn && mapping.apiField)
isValidMapping(mapping) == ~Skipped(mapping)

getValidMappings(mappings) == SelectSeq(mappings, isValidMapping)

\* the default of the maxDepth parameter of extractAllKeys
DefaultMaxDepth == 5

\* the keys `for (const key in obj)` visits
OwnKeys(obj) ==
    IF obj.t = "object" THEN ObjectKeys(obj.entries)
    ELSE IF obj.t = "array" THEN [i \in 1..Len(obj.items) |-> ToString(i - 1)]
    ELSE <<>>

\* prefix ? `${prefix}.${key}` : key
PathOf(prefix, key) == IF prefix = <<>> THEN <<key>> ELSE prefix \o <<".", key>>

NotAFunctionError == ErrorValue(TRUE, "TypeError", <<"obj.hasOwnProperty is not a function">>)

\* obj.hasOwnProperty is the inherited method unless the object has a key of that name
HidesHasOwnProperty(obj) == obj.t = "object" /\ HasKey(obj.entries, "hasOwnProperty")

RECURSIVE extractAllKeys(_, _, _)
RECURSIVE ExtractFrom(_, _, _, _, _)

\* the end of one iteration: the paths of a nested object follow the key's own path
ExtractNested(obj, prefix, maxDepth, i, keys, nested) ==
    IF nested.kind = "throw" THEN nested
    ELSE ExtractFrom(obj, prefix, maxDepth, i + 1, keys \o nested.value)

\* the loop of extractAllKeys from the i-th key on
ExtractFrom(obj, prefix, maxDepth, i, keys) ==
    IF i > Len(OwnKeys(obj)) THEN Return(keys)
    ELSE IF HidesHasOwnProperty(obj) THEN Throw(NotAFunctionError)
    ELSE IF Property(obj, OwnKeys(obj)[i]).t \in {"object", "date"}
         THEN ExtractNested(obj, prefix, maxDepth, i, Append(keys, PathOf(prefix, OwnKeys(obj)[i])),
                            extractAllKeys(Property(obj, OwnKeys(obj)[i]), PathOf(prefix, OwnKeys(obj)[i]),
                                           maxDepth - 1))
    ELSE ExtractFrom(obj, prefix, maxDepth, i + 1, Append(keys, PathOf(prefix, OwnKeys(obj)[i])))

extractAllKeys(obj, prefix, maxDepth) ==
    IF Falsy(obj) \/ ~IsObjectType(obj) \/ maxDepth <= 0 THEN Return(<<>>)
    ELSE ExtractFrom(obj, prefix, maxDepth, 1, <<>>)

\* criticalColumns.get(key), "undefined" for a key the map does not hold
criticalColumns(key) ==
    CASE key = <<"id">> -> "api_id"
      [] key = <<"createdAt">> -> "createdAt"
      [] key = <<"updatedAt">> -> "updatedAt"
      [] OTHER -> "undefined"

\* apiField.replace(/\./g, '_')
RECURSIVE ReplaceDots(_, _)
ReplaceDots(path, i) ==
    IF i > Len(path) THEN ""
    ELSE (IF path[i] = "." THEN "_" ELSE path[i]) \o ReplaceDots(path, i + 1)

\* criticalColumns.get(apiField) || apiField.replace(/\./g, '_')
GristColumnOf(apiField) ==
    IF criticalColumns(apiField) # "undefined" THEN criticalColumns(apiField)
    ELSE ReplaceDots(apiField, 1)

\* apiFields.map(apiField => ({apiField, gristColumn, enabled: defaultEnabled}))
Generated(extracted, defaultEnabled) ==
    IF extracted.kind = "throw" THEN extracted
    ELSE Return([i \in 1..Len(extracted.value) |->
                   Mapping(GristColumnOf(extracted.value[i]), extracted.value[i], defaultEnabled, "undefined")])

generateMappingsFromApiData(sampleData, defaultEnabled) ==
    IF Falsy(sampleData) \/ ~IsObjectType(sampleData) THEN Return(<<>>)
    ELSE Generated(extractAllKeys(sampleData, <<>>, DefaultMaxDepth), defaultEnabled)

----------------------------------------------------------------------------
(* The wizard (the component holding the four steps) and what its steps    *)
(* report to it.  The refs of the wizard are gathered in a record w; a     *)
(* handler is a function from the record before to the record after.  An   *)
(* alert text is a sequence of atoms, <<>> for ''.                         *)

totalSteps == 4

\* defaultConfig, and a configuration with the given ids
GristConfigOf(docId, tableId) ==
    [docId |-> docId, tableId |-> tableId, gristApiUrl |-> "https://docs.getgrist.com"]
defaultConfig == GristConfigOf("YOUR_DOC_ID", "YOUR_TABLE_ID")

\* a row of the mapping table; '' for an empty side
Row(gristColumn, apiField) == [gristColumn |-> gristColumn, apiField |-> apiField]

\* statusTimeout: null, or the timer armed by showStatus for a message
NoTimer == [armed |-> FALSE]
Timer(message) == [armed |-> TRUE, message |-> message]

fetchSuccess == <<"Donnees recuperees avec succes">>
mappingSaved == <<"Mapping configure avec succes">>
gristValidated == <<"Configuration Grist validee">>

isStep1Complete(w) == Len(w.apiData) > 0
isStep2Complete(w) ==
    \E i \in 1..Len(w.mappings) : w.mappings[i].gristColumn # "" /\ w.mappings[i].apiField # ""
isStep3Complete(w) ==
    /\ w.gristConfig.docId # ""
    /\ w.gristConfig.docId # "YOUR_DOC_ID"
    /\ w.gristConfig.tableId # ""
    /\ w.gristConfig.tableId # "YOUR_TABLE_ID"

\* stepCompletion[currentStep.value]?.value ?? false
canGoNext(w) ==
    CASE w.currentStep = 1 -> isStep1Complete(w)
      [] w.currentStep = 2 -> isStep2Complete(w)
      [] w.currentStep = 3 -> isStep3Complete(w)
      [] w.currentStep = 4 -> w.isStep4Complete
      [] OTHER -> FALSE

\* the pending timer is cleared and a new one armed for the message
showStatus(w, message, type) ==
    [w EXCEPT !.statusMessage = message, !.statusType = type, !.statusTimeout = Timer(message)]

\* the callback of the timer armed by showStatus
StatusExpired(w) ==
    [w EXCEPT !.statusMessage = IF @ = w.statusTimeout.message THEN <<>> ELSE @,
              !.statusTimeout = NoTimer]

\* goToStep after `statusMessage.value = ''`
Move(w, direction) ==
    IF direction = "next" /\ w.currentStep < totalSteps
    THEN IF ~canGoNext(w) THEN w
         ELSE IF w.currentStep = 2
              THEN [showStatus(w, mappingSaved, "success") EXCEPT !.currentStep = @ + 1]
         ELSE IF w.currentStep = 3
              THEN [showStatus(w, gristValidated, "success") EXCEPT !.currentStep = @ + 1]
         ELSE [w EXCEPT !.currentStep = @ + 1]
    ELSE IF direction = "prev" /\ w.currentStep > 1
         THEN [w EXCEPT !.currentStep = @ - 1]
    ELSE w

\* goToStep without its test of isLoading
goToStep_WhileLoading(w, direction) == Move([w EXCEPT !.statusMessage = <<>>], direction)

goToStep(w, direction) ==
    IF w.isLoading THEN w ELSE Move([w EXCEPT !.statusMessage = <<>>], direction)

handleStep1Complete(w, data, url) ==
    goToStep(showStatus([w EXCEPT !.backendUrl = url,
                                  !.apiData = data,
                                  !.sampleRecord = IF Len(data) > 0 THEN data[1] ELSE "undefined"],
                        fetchSuccess, "success"),
             "next")

restartWizard(w) ==
    [w EXCEPT !.currentStep = 1,
              !.backendUrl = "",
              !.apiData = <<>>,
              !.sampleRecord = "undefined",
              !.mappings = <<Row("", "")>>,
              !.gristConfig = defaultConfig,
              !.statusMessage = <<>>,
              !.statusType = "info",
              !.isStep4Complete = FALSE]

\* v-model:isLoading, v-model:backendUrl, v-model:mappings, v-model:config
UpdateIsLoading(w, value) == [w EXCEPT !.isLoading = value]
UpdateBackendUrl(w, value) == [w EXCEPT !.backendUrl = value]
UpdateMappingsOf(w, value) == [w EXCEPT !.mappings = value]
UpdateConfigOf(w, value) == [w EXCEPT !.gristConfig = value]

(* Step 1: fetchApiData.  The body of the answer is kept by its shape.     *)

\* the answers of the source: rejected request, non-success status, body
\* that is not JSON, and JSON bodies: null, an array, an object holding the
\* array under data / results / items, any other object
Body(shape, records) == [kind |-> "body", shape |-> shape, records |-> records]
NoAnswer(kind) == [kind |-> kind]

SourceHttpError == NewError(<<"Erreur ", "HTTP", " ", "500", ": ", "other">>)

\* what the try block of fetchApiData gets out of the answer: the records, or the value caught
Extracted(answer) ==
    CASE answer.kind = "rejected" -> Throw(ErrorValue(TRUE, "TypeError", <<"Failed to fetch">>))
      [] answer.kind = "status" -> Throw(SourceHttpError)
      [] answer.kind = "text" -> Throw(JsonSyntaxError)
      [] answer.kind = "body" /\ answer.shape = "null" -> Throw(NullPropertyError("null (reading 'data')"))
      [] answer.kind = "body" /\ answer.shape \in {"array", "data", "results", "items"} -> Return(answer.records)
      [] answer.kind = "body" /\ answer.shape = "object" -> Return(<<"object">>)

RecordCount(n) == <<" ", ToString(n), " enregistrement(s) recupere(s) avec succes">>
NoDataFound == <<"Aucune donnee trouvee dans la reponse de l'API">>
UrlRequired == <<"[!] Veuillez saisir l'URL du backend">>

\* fetchApiData from the answer on: the try block, the catch block and the finally block
FetchSettled(w, extracted, url) ==
    UpdateIsLoading(
      IF extracted.kind = "throw"
      THEN showStatus(w, <<" ">> \o formatErrorShort(analyzeError(extracted.error, "api_fetch")), "error")
      ELSE IF Len(extracted.value) > 0
           THEN showStatus(UpdateBackendUrl(handleStep1Complete(w, extracted.value, url), url),
                           RecordCount(Len(extracted.value)), "success")
      ELSE showStatus(w, NoDataFound, "error"),
      FALSE)

(* Step 3: testGristConnection, and step 4: syncToGrist, as far as the     *)
(* wizard sees them: the alerts and the loading flag they report.          *)

DocIdRequired == <<"[!] Veuillez configurer votre Document ID Grist">>
TableIdRequired == <<"[!] Veuillez configurer votre Table ID Grist">>
ConnectionOk == <<"[ok] Connexion a Grist reussie!">>
ConnectionFailed == <<"[x] Impossible de se connecter a Grist.">>
ConnectionError == <<"[x] Erreur de connexion">>

\* ensureDocIdConfigured / ensureTableIdConfigured
DocIdConfigured(cfg) == cfg.docId # "" /\ cfg.docId # "YOUR_DOC_ID"
TableIdConfigured(cfg) == cfg.tableId # "" /\ cfg.tableId # "YOUR_TABLE_ID"

\* testGristConnection from the answers on; how: connected, refused or raised
TestSettled(w, how) ==
    UpdateIsLoading(
      IF how = "connected" THEN UpdateConfigOf(showStatus(w, ConnectionOk, "success"), w.gristConfig)
      ELSE IF how = "refused" THEN showStatus(w, ConnectionFailed, "error")
      ELSE showStatus(w, ConnectionError, "error"),
      FALSE)

SyncOk == <<"[ok] enregistrement(s) synchronise(s) avec succes!">>
SyncFailed == <<"[x] Erreur lors de la synchronisation">>
NoTransformedData == <<"[!] Aucune donnee apres transformation">>

\* canSync of step 4
canSync(w) ==
    /\ isStep3Complete(w)
    /\ w.gristConfig.gristApiUrl # ""
    /\ Len(w.apiData) > 0
    /\ isStep2Complete(w)

\* syncToGrist from the end of the insertion on; how: synced, empty or failed
SyncSettled(w, how) ==
    UpdateIsLoading(
      IF how = "synced" THEN showStatus(w, SyncOk, "success")
      ELSE IF how = "empty" THEN showStatus(w, NoTransformedData, "error")
      ELSE showStatus(w, SyncFailed, "error"),
      FALSE)

----------------------------------------------------------------------------
(* Inputs of the classifier *)

\* pieces of error messages: each detection pattern in the cases that
\* distinguish the rules, and text matching no rule
Phrases ==
    { <<"other">>,
      <<"cors">>, <<"CORS">>, <<"cross-origin">>, <<"access-control-allow-origin">>,
      <<"Failed to fetch">>, <<"Network", " request failed">>, <<"network">>,
      <<"connection">>, <<"ECONNREFUSED">>, <<"refused">>, <<"offline">>,
      <<"HTTP">>, <<"http", " ", "404">>, <<"HTTP", "404">>,
      <<"JSON">>, <<"json">>, <<"parse">>,
      <<"timeout">>, <<"Timeout">> }
    \cup { <<"HTTP", " ", StatusText(n)>> : n \in StatusCodes }

\* messages made of at most n phrases separated by ": "
RECURSIVE Messages(_)
Messages(n) ==
    IF n = 0 THEN { <<>> }
    ELSE Messages(n - 1)
         \cup Phrases
         \cup { m \o <<": ">> \o p : m \in Messages(n - 1) \ { <<>> }, p \in Phrases }

\* error.name of the values handed to the classifier; "" is a value without
\* a name property (a thrown plain object or string)
ErrorNames == {"Error", "TypeError", "SyntaxError", ""}

CaughtValues ==
    { ErrorValue(nm # "", nm, m) : nm \in ErrorNames, m \in Messages(MaxPhrases) }

\* the context tags of the call sites ('general' is the default parameter)
Contexts == {"api_fetch", "grist_sync", "general"}

NoInfo == [type |-> "none"]
NoCall == [op |-> "none"]
NoOutcome == [kind |-> "none"]

Config(token, autoCreate) ==
    [docId |-> "doc1", tableId |-> "Table1", gristApiUrl |-> "https://grist.example",
     apiTokenGrist |-> token, autoCreateColumns |-> autoCreate]

\* an answer no operation reads
Unused == [kind |-> "unused"]
NoNet == [getColumns |-> Unused, postColumns |-> Unused, postRecords |-> Unused, getRecords |-> Unused]

ClientIdle ==
    /\ config = Config("undefined", "undefined")
    /\ onLog = "undefined"
    /\ call = NoCall
    /\ network = NoNet
    /\ requests = <<>>
    /\ logs = <<>>
    /\ outcome = NoOutcome

ClassifierIdle ==
    /\ error = ErrorValue(FALSE, "", <<>>)
    /\ context = "general"
    /\ errorInfo = NoInfo

MapperIdle ==
    /\ invocation = NoCall
    /\ result = NoOutcome

NoEvent == [name |-> "none", step |-> 1]

\* the wizard as its setup leaves it
WizardIdle ==
    /\ currentStep = 1
    /\ backendUrl = ""
    /\ apiData = <<>>
    /\ sampleRecord = "undefined"
    /\ wizardMappings = <<Row("", "")>>
    /\ gristConfig = defaultConfig
    /\ isStep4Complete = FALSE
    /\ isLoading = FALSE
    /\ statusMessage = <<>>
    /\ statusType = "info"
    /\ statusTimeout = NoTimer
    /\ localUrl = ""
    /\ pending = <<>>
    /\ event = NoEvent

ClassifierInit ==
    /\ error \in CaughtValues
    /\ context \in Contexts
    /\ errorInfo = NoInfo
    /\ ClientIdle
    /\ MapperIdle
    /\ WizardIdle

\* a call site hands the caught value and its context tag to analyzeError
Analyze ==
    /\ errorInfo = NoInfo
    /\ errorInfo' = analyzeError(error, context)
    /\ UNCHANGED <<error, context>>
    /\ UNCHANGED clientVars
    /\ UNCHANGED mapperVars
    /\ UNCHANGED wizardVars

ClassifierNext == Analyze

ClassifierSpec == ClassifierInit /\ [][ClassifierNext]_vars

----------------------------------------------------------------------------
(* Inputs of the client *)

\* apiTokenGrist: absent, empty, set; autoCreateColumns: absent, true, false
Configs ==
    { Config(token, autoCreate) : token \in {"undefined", "secret"},
                                  autoCreate \in {"undefined", "true", "false"} }
    \cup { Config("", "undefined") }

\* no sink, a sink that returns, a sink that raises on every call, a sink
\* that raises on messages of type 'error'
SinkModes == {"undefined", "returns", "throws", "throwsOnError"}

\* the destination records handed to the client
RecordShapes ==
    { <<Entry("id", Scalar("number", <<"1">>))>>,
      <<Entry("score", Scalar("number", <<"85">>)), Entry("id", Scalar("number", <<"1">>))>> }

RECURSIVE ListsUpTo(_, _)
ListsUpTo(S, n) ==
    IF n = 0 THEN { <<>> }
    ELSE ListsUpTo(S, n - 1) \cup { Append(l, x) : l \in ListsUpTo(S, n - 1), x \in S }

\* the records argument: absent, or a list of at most MaxRecords records
RecordArgs ==
    { [present |-> FALSE, items |-> <<>>] }
    \cup { [present |-> TRUE, items |-> l] : l \in ListsUpTo(RecordShapes, MaxRecords) }

\* failures of a fetch call: a generic fetch failure, a failure that is not
\* an Error instance, a non-success status, a body that is not JSON
FetchRejections ==
    { Rejects(ErrorValue(TRUE, "TypeError", <<"Failed to fetch">>)),
      Rejects(ErrorValue(FALSE, "", <<"other">>)) }

HttpFailures(statuses) == { Responds(n, <<"other">>, FALSE, NullData) : n \in statuses }

NotJson == Responds(200, <<"<html>">>, FALSE, NullData)

\* answers to GET /columns
ColumnListings ==
    { <<>>,
      <<Column("id", TRUE, "id")>>,
      <<Column("id", TRUE, "id"), Column("score", TRUE, "score")>>,
      <<Column("id", TRUE, "score")>>,
      <<Column("score", TRUE, "undefined")>>,
      <<Column("id", FALSE, "undefined")>>,
      <<Column("score", TRUE, "score"), Column("id", FALSE, "undefined")>> }

GetColumnsAnswers ==
    FetchRejections \cup HttpFailures({403}) \cup { NotJson }
    \cup { Responds(200, <<>>, TRUE, NullData),
           Responds(200, <<>>, TRUE, ObjectData(FALSE, <<>>, FALSE, <<>>)) }
    \cup { Responds(200, <<>>, TRUE, ObjectData(TRUE, l, FALSE, <<>>)) : l \in ColumnListings }

\* answers to GET /columns when getColumns is called directly: more statuses,
\* and a response text that matches a detection pattern of the classifier
ListingAnswers ==
    GetColumnsAnswers \cup HttpFailures({401, 404, 418, 500})
    \cup { Responds(403, <<"cors">>, FALSE, NullData) }

\* answers to POST /columns
PostColumnsAnswers ==
    FetchRejections \cup HttpFailures({403}) \cup { NotJson }
    \cup { Responds(200, <<>>, TRUE, ObjectData(FALSE, <<>>, FALSE, <<>>)) }

\* answers to POST /records
PostRecordsAnswers ==
    FetchRejections
    \cup { Rejects(ErrorValue(TRUE, "TypeError", <<"Load failed">>)) }
    \cup HttpFailures({401, 404, 418, 500}) \cup { NotJson }
    \cup { Responds(200, <<>>, TRUE, ObjectData(FALSE, <<>>, TRUE, <<[id |-> 10], [id |-> 11]>>)),
           Responds(201, <<>>, TRUE, NullData) }

\* answers to GET /records
GetRecordsAnswers ==
    FetchRejections \cup HttpFailures({401, 403, 404, 500}) \cup { NotJson }
    \cup { Responds(200, <<>>, TRUE, ObjectData(FALSE, <<>>, TRUE, <<[id |-> 10]>>)),
           Responds(200, <<>>, TRUE, ObjectData(FALSE, <<>>, FALSE, <<>>)),
           Responds(200, <<>>, TRUE, NullData) }

\* the column specs handed to addColumns by a caller
ColumnSpecs ==
    { <<>>,
      <<[id |-> "score", label |-> "undefined", type |-> "undefined"]>>,
      <<[id |-> "score", label |-> "Score", type |-> "Int"], [id |-> "name", label |-> "", type |-> "Text"]>> }

----------------------------------------------------------------------------
(* The client as a state machine: a client is constructed with a config    *)
(* and a sink, then one of its operations is called and runs to its end.   *)

ClientInit ==
    /\ config \in Configs
    /\ onLog \in SinkModes
    /\ call = NoCall
    /\ network = NoNet
    /\ requests = <<>>
    /\ logs = <<>>
    /\ outcome = NoOutcome
    /\ ClassifierIdle
    /\ MapperIdle
    /\ WizardIdle

\* the operation ran: record what it did
Ran(r) ==
    /\ requests' = r.requests
    /\ logs' = r.logs
    /\ outcome' = r.outcome
    /\ UNCHANGED <<config, onLog>>
    /\ UNCHANGED classifierVars
    /\ UNCHANGED mapperVars
    /\ UNCHANGED wizardVars

\* the column step of addRecords runs: the answers of /columns are read
ColumnStepRuns(cfg, recs) ==
    recs.present /\ Len(recs.items) > 0 /\ cfg.autoCreateColumns # "false"

AddRecords ==
    /\ call = NoCall
    /\ \E recs \in RecordArgs, pr \in PostRecordsAnswers :
       \E gc \in IF ColumnStepRuns(config, recs) THEN GetColumnsAnswers ELSE {Unused},
          pc \in IF ColumnStepRuns(config, recs) THEN PostColumnsAnswers ELSE {Unused} :
         /\ call' = [op |-> "addRecords", records |-> recs]
         /\ network' = [NoNet EXCEPT !.getColumns = gc, !.postColumns = pc, !.postRecords = pr]
         /\ Ran(addRecords(config, onLog, network', recs))

EnsureColumnsExist ==
    /\ call = NoCall
    /\ \E recs \in RecordArgs, gc \in GetColumnsAnswers, pc \in PostColumnsAnswers :
         /\ call' = [op |-> "ensureColumnsExist", records |-> recs]
         /\ network' = [NoNet EXCEPT !.getColumns = gc, !.postColumns = pc]
         /\ Ran(ensureColumnsExist(config, onLog, network', recs))

GetColumns ==
    /\ call = NoCall
    /\ \E gc \in ListingAnswers :
         /\ call' = [op |-> "getColumns"]
         /\ network' = [NoNet EXCEPT !.getColumns = gc]
         /\ Ran(getColumns(config, network'))

AddColumns ==
    /\ call = NoCall
    /\ \E cols \in ColumnSpecs, pc \in PostColumnsAnswers :
         /\ call' = [op |-> "addColumns", columns |-> cols]
         /\ network' = [NoNet EXCEPT !.postColumns = pc]
         /\ Ran(addColumns(config, onLog, network', cols))

GetRecords ==
    /\ call = NoCall
    /\ \E limit \in {0, 1, 5}, gr \in GetRecordsAnswers :
         /\ call' = [op |-> "getRecords", limit |-> limit]
         /\ network' = [NoNet EXCEPT !.getRecords = gr]
         /\ Ran(getRecords(config, network', limit))

TestConnection ==
    /\ call = NoCall
    /\ \E gr \in GetRecordsAnswers :
         /\ call' = [op |-> "testConnection"]
         /\ network' = [NoNet EXCEPT !.getRecords = gr]
         /\ Ran(testConnection(config, network'))

ValidateApiToken ==
    /\ call = NoCall
    /\ \E gr \in GetRecordsAnswers :
         /\ call' = [op |-> "validateApiToken"]
         /\ network' = [NoNet EXCEPT !.getRecords = gr]
         /\ Ran(validateApiToken(config, network'))

Next ==
    \/ AddRecords
    \/ EnsureColumnsExist
    \/ GetColumns
    \/ AddColumns
    \/ GetRecords
    \/ TestConnection
    \/ ValidateApiToken

Spec == ClientInit /\ [][Next]_vars

----------------------------------------------------------------------------
(* Inputs of the mapper *)

ValidDate == DateValue(<<"2024-01-15T00:00:00.000Z">>)
InvalidDate == DateValue(<<>>)

SampleUser == Obj(<<Entry("id", Num(<<"7">>)), Entry("name", Str(<<"Alice">>))>>, FALSE)
Tags == Arr(<<Str(<<"a">>), Str(<<"b">>)>>)
Mixed == Arr(<<Null, Undefined, SampleUser, Arr(<<Num(<<"1">>)>>), ValidDate, Bool("true")>>)
\* an object holding a reference to itself
Loop == Obj(<<Entry("self", Null)>>, TRUE)

\* objects nested n levels deep under the key "a"
RECURSIVE Nest(_)
Nest(n) == IF n = 0 THEN Num(<<"1">>) ELSE Obj(<<Entry("a", Nest(n - 1))>>, FALSE)

Rec1 ==
    Obj(<<Entry("id", Num(<<"1">>)), Entry("user", SampleUser), Entry("tags", Tags),
          Entry("createdAt", Str(<<"2024", "-", "01", "-", "01">>)), Entry("active", Bool("true")),
          Entry("note", Null)>>, FALSE)
Rec2 ==
    Obj(<<Entry("id", Num(<<"0">>)), Entry("user", Null), Entry("tags", Arr(<<>>)),
          Entry("when", ValidDate), Entry("mixed", Mixed)>>, FALSE)
Rec3 ==
    Obj(<<Entry("id", Num(<<"3">>)), Entry("self", Loop), Entry("bad", InvalidDate),
          Entry("items", Arr(<<Loop>>))>>, FALSE)
Rec4 == Obj(<<Entry("hasOwnProperty", Num(<<"1">>)), Entry("id", Num(<<"4">>))>>, FALSE)

\* the values handed to transformRecord as the source record, and to
\* extractAllKeys / generateMappingsFromApiData as the sample
SourceRecords ==
    { Null, Undefined, Num(<<"0">>), Str(<<"Alice">>), Rec1, Rec2, Rec3, Rec4,
      Nest(DefaultMaxDepth + 1), Arr(<<SampleUser, Num(<<"1">>)>>), Obj(<<>>, FALSE) }

\* the values handed to serializeValue: the field values of the records and the records
SerialValues ==
    SourceRecords
    \cup UNION { {r.entries[i].value : i \in 1..Len(r.entries)} : r \in {Rec1, Rec2, Rec3, Rec4} }
    \cup { Str(<<>>), Bool("false"), Arr(<<InvalidDate, Tags>>),
           Arr(<<Num(<<"1">>), Num(<<"2">>), Num(<<"3">>)>>) }

\* the dotted paths of the model
Paths ==
    { <<>>, <<"id">>, <<"user">>, <<"user", ".", "name">>, <<"user", ".", "id">>, <<"tags">>,
      <<"tags", ".", "0">>, <<"missing">>, <<"user", ".", "name", ".", "first">>, <<"self">>,
      <<"when">>, <<"bad">>, <<"mixed">>, <<"items">>, <<"id", ".", "x">>, <<"user", ".", ".", "name">>,
      <<"self", ".", "self">> }

\* the prefix and maxDepth arguments of extractAllKeys
Prefixes == { <<>>, <<"p">> }
MaxDepths == 0..DefaultMaxDepth

\* the entries of the mapping lists
MappingEntries ==
    { NullMapping,
      Mapping("Name", <<"user", ".", "name">>, "undefined", "undefined"),
      Mapping("Name", <<"id">>, "true", "undefined"),
      Mapping("Name", <<"tags">>, "false", "undefined"),
      Mapping("Extra", <<"missing">>, "undefined", "undefined"),
      Mapping("", <<"id">>, "true", "undefined"),
      Mapping("Id", <<>>, "true", "undefined"),
      Mapping("User", <<"user">>, "true", "undefined"),
      Mapping("Self", <<"self">>, "true", "undefined"),
      Mapping("Bad", <<"bad">>, "true", "undefined"),
      Mapping("Name", <<"id">>, "true", "label"),
      Mapping("Tags", <<"tags">>, "undefined", "identity"),
      Mapping("Id", <<"id">>, "true", "throws"),
      Mapping("Id", <<"id">>, "true", "notAFunction") }

\* the mappings argument: absent, or a list of at most MaxMappings entries
MappingArgs ==
    { [present |-> FALSE, items |-> <<>>] }
    \cup { [present |-> TRUE, items |-> l] : l \in ListsUpTo(MappingEntries, MaxMappings) }

\* the source records handed to transformRecord
TransformSources == { Null, Undefined, Str(<<"Alice">>), Rec1, Rec2, Rec3 }

\* the apiRecords argument of transformRecords
RecordLists == { Undefined, Rec1, Arr(<<>>), Arr(<<Rec1, Rec2>>), Arr(<<Rec3, Null>>) }

----------------------------------------------------------------------------
(* The mapper as a state machine: one of its functions is called on        *)
(* arguments of the sets above and runs to its end.                        *)

MapperInit ==
    /\ MapperIdle
    /\ ClientIdle
    /\ ClassifierIdle
    /\ WizardIdle

\* the function ran to its end
Ended(out) ==
    /\ result' = out
    /\ UNCHANGED classifierVars
    /\ UNCHANGED clientVars
    /\ UNCHANGED wizardVars

SerializeValue ==
    /\ invocation = NoCall
    /\ \E value \in SerialValues :
         /\ invocation' = [op |-> "serializeValue", value |-> value]
         /\ Ended(serializeValue(value))

GetNestedValue ==
    /\ invocation = NoCall
    /\ \E obj \in SourceRecords, path \in Paths :
         /\ invocation' = [op |-> "getNestedValue", obj |-> obj, path |-> path]
         /\ Ended(Return(getNestedValue(obj, path)))

TransformRecord ==
    /\ invocation = NoCall
    /\ \E apiRecord \in TransformSources, mappings \in MappingArgs :
         /\ invocation' = [op |-> "transformRecord", apiRecord |-> apiRecord, mappings |-> mappings]
         /\ Ended(transformRecord(apiRecord, mappings))

TransformRecords ==
    /\ invocation = NoCall
    /\ \E apiRecords \in RecordLists, mappings \in MappingArgs :
         /\ invocation' = [op |-> "transformRecords", apiRecords |-> apiRecords, mappings |-> mappings]
         /\ Ended(transformRecords(apiRecords, mappings))

ExtractAllKeys ==
    /\ invocation = NoCall
    /\ \E obj \in SourceRecords, prefix \in Prefixes, maxDepth \in MaxDepths :
         /\ invocation' = [op |-> "extractAllKeys", obj |-> obj, prefix |-> prefix, maxDepth |-> maxDepth]
         /\ Ended(extractAllKeys(obj, prefix, maxDepth))

GenerateMappingsFromApiData ==
    /\ invocation = NoCall
    /\ \E sampleData \in SourceRecords, defaultEnabled \in {"true", "false"} :
         /\ invocation' = [op |-> "generateMappingsFromApiData", sampleData |-> sampleData,
                           defaultEnabled |-> defaultEnabled]
         /\ Ended(generateMappingsFromApiData(sampleData, defaultEnabled))

MapperNext ==
    \/ SerializeValue
    \/ GetNestedValue
    \/ TransformRecord
    \/ TransformRecords
    \/ ExtractAllKeys
    \/ GenerateMappingsFromApiData

MapperSpec == MapperInit /\ [][MapperNext]_vars

----------------------------------------------------------------------------
(* The wizard as a state machine: the user types, clicks and edits, the    *)
(* steps start asynchronous operations, and the operations settle in any   *)
(* order.  A step is unmounted when the wizard leaves it: what an          *)
(* operation of an unmounted step reports is dropped, except during the    *)
(* leave transition, when the handlers of the wizard still receive it.     *)

\* the URLs typed at step 1, the answers of the source, the tables edited
\* at step 2 and the configurations edited at step 3
Urls == {"", "https://api.example"}

SourceAnswers ==
    { NoAnswer("rejected"), NoAnswer("status"), Body("array", <<>>),
      Body("array", <<"r1">>), Body("data", <<"r1", "r2">>) }

MappingTables ==
    { <<Row("", "")>>, <<Row("Name", "")>>, <<Row("", "name"), Row("Name", "name")>> }

GristConfigs ==
    { defaultConfig, GristConfigOf("doc1", "YOUR_TABLE_ID"), GristConfigOf("doc1", "Table1") }

\* the refs of the wizard
W ==
    [currentStep |-> currentStep, backendUrl |-> backendUrl, apiData |-> apiData,
     sampleRecord |-> sampleRecord, mappings |-> wizardMappings, gristConfig |-> gristConfig,
     isStep4Complete |-> isStep4Complete, isLoading |-> isLoading, statusMessage |-> statusMessage,
     statusType |-> statusType, statusTimeout |-> statusTimeout]

\* an operation started by a step; stale once the wizard has left the step
Operation(op, url) == [op |-> op, url |-> url, stale |-> FALSE]
Without(queue, i) == SubSeq(queue, 1, i - 1) \o SubSeq(queue, i + 1, Len(queue))
Unmounted(queue) == [i \in 1..Len(queue) |-> [queue[i] EXCEPT !.stale = TRUE]]

WizardInit ==
    /\ WizardIdle
    /\ ClientIdle
    /\ ClassifierIdle
    /\ MapperIdle

\* the handlers ran: the refs hold w; a change of step unmounts the step
\* left, and step 1 is mounted with the wizard's URL in its field
Handled(w, queue, typed) ==
    /\ currentStep' = w.currentStep
    /\ backendUrl' = w.backendUrl
    /\ apiData' = w.apiData
    /\ sampleRecord' = w.sampleRecord
    /\ wizardMappings' = w.mappings
    /\ gristConfig' = w.gristConfig
    /\ isStep4Complete' = w.isStep4Complete
    /\ isLoading' = w.isLoading
    /\ statusMessage' = w.statusMessage
    /\ statusType' = w.statusType
    /\ statusTimeout' = w.statusTimeout
    /\ localUrl' = IF w.currentStep = 1 /\ currentStep # 1 THEN w.backendUrl ELSE typed
    /\ pending' = IF w.currentStep # currentStep THEN Unmounted(queue) ELSE queue
    /\ UNCHANGED classifierVars
    /\ UNCHANGED clientVars
    /\ UNCHANGED mapperVars

Happened(name) == [name |-> name, step |-> currentStep]

\* the user types in the URL field of step 1
TypeUrl ==
    /\ currentStep = 1
    /\ \E typed \in Urls :
         /\ event' = Happened("input")
         /\ Handled(W, pending, typed)

\* the user asks for the data: fetchApiData up to its await
FetchApiData ==
    /\ currentStep = 1
    /\ Len(pending) < MaxPending
    /\ event' = Happened("fetchApiData")
    /\ IF localUrl = ""
       THEN Handled(showStatus(W, UrlRequired, "error"), pending, localUrl)
       ELSE Handled(UpdateIsLoading(W, TRUE), Append(pending, Operation("fetchApiData", localUrl)), localUrl)

\* the records fetchApiData emits with 'complete', none when it emits nothing
Emitted(extracted) == IF extracted.kind = "throw" THEN <<>> ELSE extracted.value

\* the source answers: fetchApiData from its await to its end
FetchSettles ==
    \E i \in 1..Len(pending), answer \in SourceAnswers, delivered \in BOOLEAN :
      /\ pending[i].op = "fetchApiData"
      /\ delivered \/ pending[i].stale
      /\ event' = [name |-> "fetchSettled", step |-> currentStep, delivered |-> delivered,
                   records |-> Emitted(Extracted(answer))]
      /\ Handled(IF delivered THEN FetchSettled(W, Extracted(answer), pending[i].url) ELSE W,
                 Without(pending, i), localUrl)

\* the button Suivant, shown before the last step and disabled unless canGoNext
ClickNext ==
    /\ currentStep # totalSteps
    /\ canGoNext(W)
    /\ event' = Happened("goToStep")
    /\ Handled(goToStep(W, "next"), pending, localUrl)

\* the button Retour, disabled while loading and at the first step
ClickPrev ==
    /\ ~isLoading
    /\ currentStep # 1
    /\ event' = Happened("goToStep")
    /\ Handled(goToStep(W, "prev"), pending, localUrl)

\* the button Nouvelle synchronisation, shown at the last step
ClickRestart ==
    /\ currentStep = totalSteps
    /\ event' = Happened("restartWizard")
    /\ Handled(restartWizard(W), pending, localUrl)

\* step 2 reports an edited table
UpdateMappings ==
    /\ currentStep = 2
    /\ \E rows \in MappingTables :
         /\ event' = Happened("update:mappings")
         /\ Handled(UpdateMappingsOf(W, rows), pending, localUrl)

\* step 3 reports an edited configuration
UpdateConfig ==
    /\ currentStep = 3
    /\ \E cfg \in GristConfigs :
         /\ event' = Happened("update:config")
         /\ Handled(UpdateConfigOf(W, cfg), pending, localUrl)

\* the button of step 3, disabled unless both ids are set: testGristConnection up to its await
TestGristConnection ==
    /\ currentStep = 3
    /\ isStep3Complete(W)
    /\ Len(pending) < MaxPending
    /\ event' = Happened("testGristConnection")
    /\ IF ~DocIdConfigured(gristConfig)
       THEN Handled(showStatus(W, DocIdRequired, "error"), pending, localUrl)
       ELSE IF ~TableIdConfigured(gristConfig)
            THEN Handled(showStatus(W, TableIdRequired, "error"), pending, localUrl)
       ELSE Handled(UpdateIsLoading(W, TRUE), Append(pending, Operation("testGristConnection", "")), localUrl)

TestSettles ==
    \E i \in 1..Len(pending), how \in {"connected", "refused", "raised"}, delivered \in BOOLEAN :
      /\ pending[i].op = "testGristConnection"
      /\ delivered \/ pending[i].stale
      /\ event' = [name |-> "testSettled", step |-> currentStep, delivered |-> delivered]
      /\ Handled(IF delivered THEN TestSettled(W, how) ELSE W, Without(pending, i), localUrl)

\* the button of step 4, disabled unless canSync: syncToGrist up to its await
SyncToGrist ==
    /\ currentStep = 4
    /\ canSync(W)
    /\ Len(pending) < MaxPending
    /\ event' = Happened("syncToGrist")
    /\ Handled(UpdateIsLoading(W, TRUE), Append(pending, Operation("syncToGrist", "")), localUrl)

SyncSettles ==
    \E i \in 1..Len(pending), how \in {"synced", "empty", "failed"}, delivered \in BOOLEAN :
      /\ pending[i].op = "syncToGrist"
      /\ delivered \/ pending[i].stale
      /\ event' = [name |-> "syncSettled", step |-> currentStep, delivered |-> delivered]
      /\ Handled(IF delivered THEN SyncSettled(W, how) ELSE W, Without(pending, i), localUrl)

\* the timer armed by showStatus fires
StatusExpires ==
    /\ statusTimeout.armed
    /\ event' = Happened("statusTimeout")
    /\ Handled(StatusExpired(W), pending, localUrl)

WizardNext ==
    \/ TypeUrl
    \/ FetchApiData
    \/ FetchSettles
    \/ ClickNext
    \/ ClickPrev
    \/ ClickRestart
    \/ UpdateMappings
    \/ UpdateConfig
    \/ TestGristConnection
    \/ TestSettles
    \/ SyncToGrist
    \/ SyncSettles
    \/ StatusExpires

WizardSpec == WizardInit /\ [][WizardNext]_vars

----------------------------------------------------------------------------
(* Claims about the classifier (ClassifierSpec) *)

Classified == errorInfo # NoInfo

\* the detection rules, in the order of the claim
CorsRule(e) == isCorsError(e)
NetworkRule(e) == isNetworkError(e)
HttpRule(e) == HttpMatches(e.message) # {}
JsonRule(e) == Includes(e.message, <<"JSON">>) \/ Includes(e.message, <<"parse">>)
TimeoutRule(e) == Includes(toLowerCase(e.message), <<"timeout">>)

HttpKinds == {"unauthorized", "forbidden", "not_found", "unprocessable", "server_error", "unknown"}

\* C8: the kind is that of the first rule that matches, in the order
\* cross-origin, network, HTTP status, malformed response, timeout; an error
\* matching no rule is unknown.  A TypeError 'failed to fetch' is cors, never
\* network; a message whose 'HTTP <code>' is 'HTTP 504' and which mentions
\* 'timeout' is never timeout, and is server_error when neither earlier rule
\* matches.
C8_FirstMatchWins ==
    Classified =>
      LET e == error
          t == errorInfo.type
      IN /\ IF CorsRule(e) THEN t = "cors"
            ELSE IF NetworkRule(e) THEN t = "network"
            ELSE IF HttpRule(e)
                 THEN /\ t \in HttpKinds
                      /\ t = "unknown" => HttpStatusOf(e.message) \notin {401, 403, 404, 422, 500, 502, 503, 504}
                      /\ (HttpStatusOf(e.message) = 504 /\ TimeoutRule(e)) => t = "server_error"
            ELSE IF JsonRule(e) THEN t = "invalid_json"
            ELSE IF TimeoutRule(e) THEN t = "timeout"
            ELSE t = "unknown"
         /\ (e.name = "TypeError" /\ Includes(toLowerCase(e.message), <<"failed to fetch">>)) => t = "cors"
         /\ (t = "timeout" /\ HttpRule(e)) => HttpStatusOf(e.message) # 504

\* an error matching the HTTP-status, malformed-response and timeout rules at
\* once has been classified by the HTTP-status rule
C8_Witness ==
    /\ Classified
    /\ errorInfo.type = "server_error"
    /\ TimeoutRule(error)

\* a generic fetch failure, which both the cors and the network rule match,
\* has been classified
C8_WitnessFetch ==
    /\ Classified
    /\ error.name = "TypeError"
    /\ Includes(error.message, <<"Failed to fetch">>)
    /\ errorInfo.type = "cors"

\* the kind the claim gives to each status code; other names the kind of
\* every code outside the table
KindOfStatus(status, other) ==
    CASE status = 401 -> "unauthorized"
      [] status = 403 -> "forbidden"
      [] status = 404 -> "not_found"
      [] status = 422 -> "unprocessable"
      [] status \in {500, 502, 503, 504} -> "server_error"
      [] OTHER -> other

HttpClassified ==
    Classified /\ ~CorsRule(error) /\ ~NetworkRule(error) /\ HttpRule(error)

KindTitleMessage(info) == <<info.type, info.title, info.message>>

\* C10: the kind (and with it title and message) does not depend on the
\* context tag: classifying the same error under any other context gives the
\* same kind, title and message
C10_KindIgnoresContext ==
    Classified =>
      \A c \in Contexts : KindTitleMessage(analyzeError(error, c)) = KindTitleMessage(errorInfo)

\* an error has been classified under 'grist_sync' whose wording differs from
\* the wording under 'api_fetch'
C10_Witness ==
    /\ Classified
    /\ context = "grist_sync"
    /\ analyzeError(error, "api_fetch").solutions # errorInfo.solutions

----------------------------------------------------------------------------
(* Claims about the client (Spec) *)

Done == outcome # NoOutcome

Endpoint(r) == r.url[Len(r.url)]

\* the kind of a fetch call: its method and endpoint
KindOf(r) == <<r.method, Endpoint(r)>>

\* the positions of the trace holding a call of this kind
Calls(method, endpoint) ==
    {i \in 1..Len(requests) : KindOf(requests[i]) = <<method, endpoint>>}

\* the sequence of kinds of the fetch calls issued
Trace == [i \in 1..Len(requests) |-> KindOf(requests[i])]

NonEmptyInput == call.records.present /\ Len(call.records.items) > 0

\* the request got no parsed body: it was rejected (or never answered), or
\* answered with a non-success status or with a body that is not JSON
Failed(answer) ==
    \/ answer.kind # "response"
    \/ ~Ok(answer)
    \/ ~answer.hasJson

\* the listing of GET /columns is unusable: the request failed, or the body
\* is null, or an entry has no fields object
ListingFailed ==
    \/ Failed(network.getColumns)
    \/ network.getColumns.data.type = "null"
    \/ (network.getColumns.data.hasColumns
           /\ \E i \in 1..Len(network.getColumns.data.columns) :
                 ~network.getColumns.data.columns[i].hasFields)

\* the columns listed by a usable answer
Listed ==
    IF ~ListingFailed /\ network.getColumns.data.hasColumns
    THEN network.getColumns.data.columns
    ELSE <<>>

\* the distinct keys of the candidate records / the colId of the listed columns
RequiredKeys == UNION { {call.records.items[i][j].key : j \in 1..Len(call.records.items[i])}
                        : i \in 1..Len(call.records.items) }
ExistingIds == {Listed[i].colId : i \in 1..Len(Listed)}

\* the column step of the call failed in one of the ways of the claim
ColumnStepFailed ==
    \/ ListingFailed
    \/ (~ListingFailed /\ RequiredKeys \ ExistingIds # {} /\ Failed(network.postColumns))

\* C1 as stated: whenever the column step of addRecords has listed the
\* columns and fails (listing, creation, malformed listing), the POST on
\* /records is still issued, as the last request, and the outcome of
\* addRecords is that of this POST
C1_InsertionSurvivesColumnFailure ==
    (Done /\ call.op = "addRecords" /\ ColumnStepRuns(config, call.records)
          /\ Calls("GET", "/columns") # {} /\ ColumnStepFailed) =>
      /\ Calls("POST", "/records") = {Len(requests)}
      /\ (~Failed(network.postRecords) => outcome = Return(network.postRecords.data))

\* C2: addRecords on an empty or absent list raises the empty-input error
\* and issues no request (and calls no sink), whatever autoCreateColumns is
C2_EmptyInputNoRequest ==
    (Done /\ call.op = "addRecords" /\ ~NonEmptyInput) =>
      /\ requests = <<>>
      /\ logs = <<>>
      /\ outcome = Throw(ErrorValue(TRUE, "Error", <<"Aucun enregistrement a ajouter">>))

\* addRecords was called with an empty list on a client that creates columns
C2_Witness ==
    /\ Done
    /\ call.op = "addRecords"
    /\ call.records.present
    /\ call.records.items = <<>>
    /\ config.autoCreateColumns = "true"
    /\ outcome.kind = "throw"

\* C3: one addRecords call on a non-empty list issues its requests in the
\* order GET /columns, POST /columns, POST /records, each at most once; the
\* POST /columns only after a listing that left some key missing; the POST
\* /records after the column step; with autoCreateColumns false no request
\* to /columns at all
C3_RequestOrder ==
    (Done /\ call.op = "addRecords" /\ NonEmptyInput) =>
      /\ Trace \in { <<>>,
                     << <<"GET", "/columns">> >>,
                     << <<"GET", "/columns">>, <<"POST", "/columns">> >>,
                     << <<"GET", "/columns">>, <<"POST", "/records">> >>,
                     << <<"GET", "/columns">>, <<"POST", "/columns">>, <<"POST", "/records">> >>,
                     << <<"POST", "/records">> >> }
      /\ (Calls("POST", "/columns") # {} => (~ListingFailed /\ RequiredKeys \ ExistingIds # {}))
      /\ (config.autoCreateColumns = "false" =>
            (Calls("GET", "/columns") = {} /\ Calls("POST", "/columns") = {}))
      /\ ((config.autoCreateColumns # "false" /\ Calls("POST", "/records") # {}) =>
            Calls("GET", "/columns") = {1})

\* all three requests were issued by one call
C3_Witness ==
    /\ Done
    /\ call.op = "addRecords"
    /\ Len(requests) = 3
    /\ outcome.kind = "return"

\* the failure an operation met on its own request: the empty input of
\* addRecords, else the failure of the request the operation ends with
CauseOf(c) ==
    CASE c.op = "addRecords" ->
           IF ~NonEmptyInput THEN Throw(NewError(<<"Aucun enregistrement a ajouter">>))
           ELSE ReadJson(network.postRecords)
      [] c.op = "addColumns" -> ReadJson(network.postColumns)
      [] c.op = "getColumns" ->
           IF ~Failed(network.getColumns) /\ network.getColumns.data.type = "null"
           THEN Throw(NullPropertyError("null (reading 'columns')"))
           ELSE ReadJson(network.getColumns)
      [] c.op = "getRecords" ->
           IF ~Failed(network.getRecords) /\ network.getRecords.data.type = "null"
           THEN Throw(NullPropertyError("null (reading 'records')"))
           ELSE ReadJson(network.getRecords)

\* classifier message, " - ", first remediation step, under 'grist_sync'
ShortDiagnosis(e) ==
    analyzeError(e, "grist_sync").message \o <<" - ">> \o analyzeError(e, "grist_sync").solutions[1]

RaisingOps == {"addRecords", "getRecords", "getColumns", "addColumns"}

\* C4 as stated: every error leaving the four operations carries the short
\* diagnosis of the failure, the empty-input failure and failures that are
\* not Error instances included
C4_Original ==
    (Done /\ call.op \in RaisingOps /\ outcome.kind = "throw") =>
      outcome.error.message = ShortDiagnosis(CauseOf(call).error)

\* C4 amended: a failure of the operation's request that is an Error
\* instance leaves as an Error carrying the short diagnosis; the empty-input
\* failure leaves with its raw message; a failure that is not an Error
\* instance leaves unchanged; and in addRecords and addColumns, when the
\* sink raises on the error message, the sink's error leaves instead
C4_ClassifiedRethrow ==
    (Done /\ call.op \in RaisingOps /\ outcome.kind = "throw") =>
      IF call.op = "addRecords" /\ ~NonEmptyInput
      THEN outcome.error = NewError(<<"Aucun enregistrement a ajouter">>)
      ELSE IF call.op \in {"addRecords", "addColumns"} /\ Raises(onLog, "error")
      THEN outcome.error = SinkError
      ELSE /\ CauseOf(call).kind = "throw"
           /\ IF CauseOf(call).error.inst
              THEN outcome.error = NewError(ShortDiagnosis(CauseOf(call).error))
              ELSE outcome.error = CauseOf(call).error

\* addRecords failed on a 404 of the insertion and raised the short diagnosis
C4_Witness ==
    /\ Done
    /\ call.op = "addRecords"
    /\ outcome.kind = "throw"
    /\ network.postRecords.kind = "response"
    /\ network.postRecords.status = 404
    /\ outcome.error.message =
         <<"Document, table ou URL introuvable", " - ",
           "[ok] Verifiez que le Document ID est correct (dans l'URL Grist)">>

\* the operation of the call, run on a client with the given sink
RunWithSink(c, sink) ==
    CASE c.op = "addRecords" -> addRecords(config, sink, network, c.records)
      [] c.op = "ensureColumnsExist" -> ensureColumnsExist(config, sink, network, c.records)
      [] c.op = "getColumns" -> getColumns(config, network)
      [] c.op = "addColumns" -> addColumns(config, sink, network, c.columns)
      [] c.op = "getRecords" -> getRecords(config, network, c.limit)
      [] c.op = "testConnection" -> testConnection(config, network)
      [] c.op = "validateApiToken" -> validateApiToken(config, network)

\* C5 as stated: the requests issued and the outcome of an operation are
\* those of the same call on a client with any other sink behaviour (none,
\* returning, raising)
C5_SinkNeverAffectsControlFlow ==
    Done =>
      \A sink \in SinkModes :
        /\ RunWithSink(call, sink).requests = requests
        /\ RunWithSink(call, sink).outcome = outcome

\* the POST /columns bodies of the trace
CreatedIds(i) == [j \in 1..Len(requests[i].body.columns) |-> requests[i].body.columns[j].id]

C7_BodyAndResult ==
    (Done /\ call.op = "addRecords") =>
      /\ \A i \in Calls("POST", "/records") :
           /\ requests[i].body.kind = "records"
           /\ Len(requests[i].body.records) = Len(call.records.items)
           /\ \A j \in 1..Len(call.records.items) :
                requests[i].body.records[j] = [fields |-> call.records.items[j]]
      /\ ((Calls("POST", "/records") # {} /\ ~Failed(network.postRecords)) =>
            outcome = Return(network.postRecords.data))

\* two different records were posted and the ids of the response came back
C7_Witness ==
    /\ Done
    /\ call.op = "addRecords"
    /\ Len(call.records.items) = 2
    /\ call.records.items[1] # call.records.items[2]
    /\ Calls("POST", "/records") # {}
    /\ outcome.kind = "return"
    /\ outcome.value.type = "object"
    /\ outcome.value.records = <<[id |-> 10], [id |-> 11]>>

\* the failure of the request of getRecords or getColumns as the try block
\* raises it, written out: the rejection of fetch, the Error made of the
\* status and the response text, the failure of response.json(), the read of
\* a property of a null body
RawFailure(answer, reading) ==
    IF answer.kind = "reject" THEN answer.error
    ELSE IF ~Ok(answer)
         THEN ErrorValue(TRUE, "Error",
                         <<"Erreur ", "HTTP", " ", StatusText(answer.status), ": ">> \o answer.text)
    ELSE IF ~answer.hasJson THEN JsonSyntaxError
    ELSE NullPropertyError(reading)

\* the request got a usable body
Succeeds(answer) == ~Failed(answer) /\ answer.data.type # "null"

\* C11 as stated: getRecords on failure raises an error whose message is the
\* classifier's message only, and never calls the sink
C11_Original ==
    (Done /\ call.op = "getRecords" /\ outcome.kind = "throw") =>
      /\ outcome.error.message =
           analyzeError(RawFailure(network.getRecords, "null (reading 'records')"), "grist_sync").message
      /\ logs = <<>>

\* C11 amended: getRecords never calls the sink, raises exactly when its
\* request fails, and then raises an Error whose message is the classifier's
\* message, " - " and the first remediation step (a failure that is not an
\* Error instance leaves unchanged)
C11_ShortDiagnosisNoLog ==
    (Done /\ call.op = "getRecords") =>
      /\ logs = <<>>
      /\ (outcome.kind = "throw") <=> ~Succeeds(network.getRecords)
      /\ outcome.kind = "throw" =>
           LET e == RawFailure(network.getRecords, "null (reading 'records')")
           IN IF e.inst
              THEN outcome.error = NewError(analyzeError(e, "grist_sync").message \o <<" - ">>
                                            \o analyzeError(e, "grist_sync").solutions[1])
              ELSE outcome.error = e

\* getRecords failed on a 404 under a sink that raises on every call, and
\* raised the message with the remediation step
C11_Witness ==
    /\ Done
    /\ call.op = "getRecords"
    /\ onLog = "throws"
    /\ network.getRecords.kind = "response"
    /\ network.getRecords.status = 404
    /\ outcome.kind = "throw"
    /\ outcome.error.message =
         <<"Document, table ou URL introuvable", " - ",
           "[ok] Verifiez que le Document ID est correct (dans l'URL Grist)">>

\* getColumns was answered with a non-success status
ListingRefused ==
    Done /\ call.op = "getColumns" /\ network.getColumns.kind = "response" /\ ~Ok(network.getColumns)

\* C12 as stated: the failure getColumns raises on a non-success status
\* carries the status code and the response text
C12_Original ==
    ListingRefused =>
      /\ outcome.kind = "throw"
      /\ Includes(outcome.error.message, <<StatusText(network.getColumns.status)>>)
      /\ Includes(outcome.error.message, network.getColumns.text)

\* C12 amended: on a non-success status the try block raises an Error made
\* of the status code and the response text; that Error is classified under
\* 'grist_sync' and what leaves getColumns is an Error carrying the
\* classifier's message and first remediation step
C12_StatusFailureClassified ==
    ListingRefused =>
      /\ outcome.kind = "throw"
      /\ outcome.error =
           NewError(ShortDiagnosis(NewError(<<"Erreur ", "HTTP", " ", StatusText(network.getColumns.status), ": ">>
                                            \o network.getColumns.text)))

\* a 418 left getColumns with its code in the message, without the response text
C12_Witness ==
    /\ ListingRefused
    /\ network.getColumns.status = 418
    /\ Includes(outcome.error.message, <<"418">>)
    /\ ~Includes(outcome.error.message, network.getColumns.text)

\* a 403 whose response text mentions cors left getColumns as a cross-origin failure
C12_WitnessText ==
    /\ ListingRefused
    /\ network.getColumns.status = 403
    /\ network.getColumns.text = <<"cors">>
    /\ Includes(outcome.error.message, <<"CORS">>)

\* C13: testConnection never raises and never calls the sink; it issues one
\* GET on /records?limit=1 and returns true exactly when getRecords(1) gets a
\* usable body (fetch answered, success status, a body that parses and is not
\* null), false otherwise
C13_ProbeNeverRaises ==
    (Done /\ call.op = "testConnection") =>
      /\ Trace = << <<"GET", "/records?limit=1">> >>
      /\ logs = <<>>
      /\ outcome = Return(Succeeds(network.getRecords))

\* testConnection returned false on a rejected fetch
C13_Witness ==
    /\ Done
    /\ call.op = "testConnection"
    /\ network.getRecords.kind = "reject"
    /\ outcome = Return(FALSE)

\* testConnection returned true
C13_WitnessTrue ==
    /\ Done
    /\ call.op = "testConnection"
    /\ outcome = Return(TRUE)

TokenConfigured == config.apiTokenGrist \notin {"undefined", ""}

\* C14 without its last case: never raises, one request, and the result by
\* status and token
ValidationByStatus ==
    /\ outcome.kind = "return"
    /\ Trace = << <<"GET", "/records?limit=1">> >>
    /\ logs = <<>>
    /\ network.getRecords.kind = "response" =>
         LET status == network.getRecords.status
             answer == outcome.value
         IN IF status \in {401, 403} THEN ~answer.valid /\ answer.needsAuth
            ELSE IF status >= 200 /\ status <= 299
                 THEN /\ answer.valid /\ ~answer.needsAuth
                      /\ answer.message = IF TokenConfigured
                                          THEN <<"Token API valide et authentifie">>
                                          ELSE <<"Document public - Aucune authentification requise">>
            ELSE /\ ~answer.valid /\ ~answer.needsAuth
                 /\ Includes(answer.message, <<StatusText(status)>>)

C14_WitnessPublic ==
    /\ Done
    /\ call.op = "validateApiToken"
    /\ ~TokenConfigured
    /\ outcome.kind = "return"
    /\ outcome.value.valid

\* C15: every request of every operation carries the header Authorization
\* 'Bearer <token>' when a token is configured, and no Authorization header
\* when the token is absent or empty
C15_BearerIffToken ==
    Done =>
      \A i \in 1..Len(requests) :
        IF TokenConfigured
        THEN /\ "Authorization" \in DOMAIN requests[i].headers
             /\ requests[i].headers.Authorization = <<"Bearer ", config.apiTokenGrist>>
        ELSE "Authorization" \notin DOMAIN requests[i].headers

\* three requests went out with the credential
C15_Witness ==
    /\ Done
    /\ TokenConfigured
    /\ Len(requests) = 3
    /\ \A i \in 1..3 : requests[i].headers.Authorization = <<"Bearer ", "secret">>

\* a request went out without credential under an empty token
C15_WitnessEmpty ==
    /\ Done
    /\ config.apiTokenGrist = ""
    /\ Len(requests) > 0
    /\ \A i \in 1..Len(requests) : DOMAIN requests[i].headers = {"ContentType"}

(***************************************************************************)
(* Claims about the field mapper (MapperSpec)                              *)
(***************************************************************************)

\* the keys of a destination record
KeysOf(rec) == { rec[i].key : i \in 1..Len(rec) }

\* the mappings of a list that transformRecord does not skip
Contributes(m) ==
    /\ m.kind = "mapping"
    /\ m.gristColumn \notin {"undefined", ""}
    /\ m.apiField # <<>>
    /\ m.enabled # "false"
Contributors(items) == { i \in 1..Len(items) : Contributes(items[i]) }
ContributorsTo(items, key) == { i \in Contributors(items) : items[i].gristColumn = key }
LastOf(indices) == CHOOSE i \in indices : \A j \in indices : j <= i

\* transformRecord returned a record
Transformed == invocation.op = "transformRecord" /\ result.kind = "return"

IsDisabledEntry(m) == m.kind = "mapping" /\ m.enabled = "false"

\* C16 (as stated): no key of the record returned by transformRecord is the
\* gristColumn of a mapping whose enabled flag is false.
C16_Original ==
    Transformed =>
      \A i \in 1..Len(invocation.mappings.items) :
        IsDisabledEntry(invocation.mappings.items[i])
          => invocation.mappings.items[i].gristColumn \notin KeysOf(result.value)

\* C16 (amended): a disabled mapping contributes nothing to the record returned
\* by transformRecord: every key of the record is the gristColumn of a mapping
\* of the list that has both sides and whose enabled flag is not false, and
\* the value under the key is the value that mapping gives. A column named
\* only by disabled mappings is therefore absent; a column named by a
\* disabled and by an enabled mapping is present with the enabled one's value.
C16_DisabledContributeNothing ==
    Transformed =>
      \A n \in 1..Len(result.value) :
        \E i \in ContributorsTo(invocation.mappings.items, result.value[n].key) :
          MappedValue(invocation.apiRecord, invocation.mappings.items[i]) = Return(result.value[n].value)

\* a list with a disabled mapping whose column is absent from a non-empty record
C16_Witness ==
    /\ Transformed
    /\ result.value # <<>>
    /\ \E i \in 1..Len(invocation.mappings.items) :
         /\ IsDisabledEntry(invocation.mappings.items[i])
         /\ invocation.mappings.items[i].gristColumn \notin KeysOf(result.value) \cup {""}

\* a disabled mapping shares its column with an enabled one: the key is present
C16_WitnessShared ==
    /\ Transformed
    /\ \E i \in 1..Len(invocation.mappings.items) :
         /\ IsDisabledEntry(invocation.mappings.items[i])
         /\ invocation.mappings.items[i].gristColumn \in KeysOf(result.value)

\* several contributing mappings of the list name the same column
HasDuplicateColumns(items) ==
    \E i, j \in Contributors(items) : i # j /\ items[i].gristColumn = items[j].gristColumn

WellFormed(mappings) ==
    mappings.present /\ \A i \in 1..Len(mappings.items) : mappings.items[i].kind = "mapping"

\* the record holds one key per column of the contributing mappings, each
\* with the value of the last mapping naming it
LastWriteWins(apiRecord, items, rec) ==
    /\ KeysOf(rec) = { items[i].gristColumn : i \in Contributors(items) }
    /\ Len(rec) = Cardinality(KeysOf(rec))
    /\ \A n \in 1..Len(rec) :
         MappedValue(apiRecord, items[LastOf(ContributorsTo(items, rec[n].key))]) = Return(rec[n].value)

\* C17: transformRecord is last-write-wins on duplicate destination columns:
\* when several valid, enabled mappings name the same column, the result
\* holds under it the value of the last one, has exactly one key per distinct
\* column of the valid enabled mappings, and no error is raised.
C17_LastWriteWinsNoError ==
    (/\ invocation.op = "transformRecord"
     /\ WellFormed(invocation.mappings)
     /\ HasDuplicateColumns(invocation.mappings.items))
      => /\ result.kind = "return"
         /\ LastWriteWins(invocation.apiRecord, invocation.mappings.items, result.value)

\* the part of C17 that the code keeps: whenever transformRecord returns, the
\* record is last-write-wins
C17_LastWriteWinsWhenReturning ==
    Transformed => LastWriteWins(invocation.apiRecord, invocation.mappings.items, result.value)

C17_WitnessDuplicate ==
    /\ Transformed
    /\ HasDuplicateColumns(invocation.mappings.items)
    /\ \E i, j \in Contributors(invocation.mappings.items) :
         /\ i < j
         /\ invocation.mappings.items[i].gristColumn = invocation.mappings.items[j].gristColumn
         /\ MappedValue(invocation.apiRecord, invocation.mappings.items[i])
              # MappedValue(invocation.apiRecord, invocation.mappings.items[j])

TransportScalars == {"string", "number", "boolean", "null"}

\* the records of the outcome of transformRecord / transformRecords, each
\* with the source record it comes from
Produced ==
    IF result.kind # "return" THEN {}
    ELSE IF invocation.op = "transformRecord"
         THEN { [source |-> invocation.apiRecord, rec |-> result.value] }
    ELSE IF invocation.op = "transformRecords"
         THEN { [source |-> invocation.apiRecords.items[n], rec |-> result.value[n]] :
                  n \in 1..Len(result.value) }
    ELSE {}

\* C18 (as stated): every value in a record produced by transformRecord /
\* transformRecords is a string, a number, a boolean or null.
C18_Original ==
    \A p \in Produced : \A n \in 1..Len(p.rec) : p.rec[n].value.t \in TransportScalars

\* the value under the n-th key of a produced record, by the last mapping naming the key
ScalarOrAbsentOrTransformed(source, items, entry) ==
    IF items[LastOf(ContributorsTo(items, entry.key))].transform \in TransformFunctions
    THEN Return(entry.value)
           = CallTransform(items[LastOf(ContributorsTo(items, entry.key))].transform,
                           getNestedValue(source, items[LastOf(ContributorsTo(items, entry.key))].apiField))
    ELSE /\ entry.value.t \in TransportScalars \cup {"undefined"}
         /\ entry.value.t = "undefined"
              <=> getNestedValue(source, items[LastOf(ContributorsTo(items, entry.key))].apiField) = Undefined

\* C18 (amended): in a record produced by transformRecord / transformRecords,
\* the value of a mapping without a custom transform is a string, a number, a
\* boolean or null, or undefined exactly when the source record lacks the
\* mapped field; the value of a mapping with a custom transform is whatever
\* the transform returned, scalar or not.
C18_ScalarUnlessAbsentOrTransformed ==
    \A p \in Produced : \A n \in 1..Len(p.rec) :
      ScalarOrAbsentOrTransformed(p.source, invocation.mappings.items, p.rec[n])

\* an object-valued field came out as JSON text
C18_Witness ==
    /\ invocation.op \in {"transformRecord", "transformRecords"}
    /\ \E p \in Produced : \E n \in 1..Len(p.rec) :
         /\ p.rec[n].key = "User"
         /\ p.rec[n].value.t = "string"
         /\ getNestedValue(p.source, <<"user">>).t = "object"

\* a missing field came out as undefined
C18_WitnessAbsent ==
    /\ invocation.op = "transformRecords"
    /\ \E p \in Produced : \E n \in 1..Len(p.rec) :
         p.rec[n].key = "Extra" /\ p.rec[n].value = Undefined

\* a custom transform handed an array through
C18_WitnessTransformed ==
    /\ invocation.op = "transformRecord"
    /\ \E p \in Produced : \E n \in 1..Len(p.rec) :
         p.rec[n].key = "Tags" /\ p.rec[n].value.t = "array"

\* C19: the pure components never raise: serializeValue, getNestedValue,
\* transformRecord, transformRecords, extractAllKeys and
\* generateMappingsFromApiData return a value for every input.
C19_PureComponentsNeverRaise ==
    invocation.op # "none" => result.kind = "return"

\* the last key of a path
LeafOf(path) == <<path[Len(path)]>>

\* the column the reserved-name table gives for the leaf key of a path, else
\* the path with its dots replaced
ColumnFromLeaf(apiField) ==
    IF criticalColumns(LeafOf(apiField)) # "undefined" THEN criticalColumns(LeafOf(apiField))
    ELSE ReplaceDots(apiField, 1)

\* C20: generateMappingsFromApiData derives the destination column of each
\* extracted path from the path's leaf key: the table's value when the leaf
\* key is in the reserved-name table, at any nesting depth ('user.id' gives
\* 'api_id'), otherwise the path with every '.' replaced by '_'.
C20_ColumnFromLeafKey ==
    (invocation.op = "generateMappingsFromApiData" /\ result.kind = "return")
      => \A n \in 1..Len(result.value) :
           result.value[n].gristColumn = ColumnFromLeaf(result.value[n].apiField)

\* what the code does: the table is looked up with the whole path
C20_ColumnFromWholePath ==
    (invocation.op = "generateMappingsFromApiData" /\ result.kind = "return")
      => \A n \in 1..Len(result.value) :
           result.value[n].gristColumn
             = (IF result.value[n].apiField \in {<<"id">>, <<"createdAt">>, <<"updatedAt">>}
                THEN (IF result.value[n].apiField = <<"id">> THEN "api_id" ELSE result.value[n].apiField[1])
                ELSE ReplaceDots(result.value[n].apiField, 1))

C20_WitnessNestedId ==
    /\ invocation.op = "generateMappingsFromApiData"
    /\ result.kind = "return"
    /\ \E n \in 1..Len(result.value) :
         /\ result.value[n].apiField = <<"user", ".", "id">>
         /\ result.value[n].gristColumn = "user_id"

\* the keys of a returned path below the prefix of the call
KeysBelow(prefix, path) ==
    IF prefix = <<>> THEN Split(path) ELSE SubSeq(Split(path), Len(Split(prefix)) + 1, Len(Split(path)))

\* the value found in obj by reading the first n keys one after the other
RECURSIVE ValueAt(_, _, _)
ValueAt(obj, keys, n) ==
    IF n = 0 THEN obj ELSE Property(ValueAt(obj, keys, n - 1), keys[n])

\* a value whose own keys extractAllKeys lists: an object that is no array
IsNonArrayObject(value) == value.t \in {"object", "date"}

\* the position of a key among the own keys of a value
KeyIndex(value, key) == CHOOSE i \in 1..Len(OwnKeys(value)) : OwnKeys(value)[i] = key

\* keys is reached from obj through non-array objects, each key an own key of its owner
Reachable(obj, keys) ==
    /\ Len(keys) >= 1
    /\ \A n \in 1..Len(keys) :
         /\ n > 1 => IsNonArrayObject(ValueAt(obj, keys, n - 1))
         /\ \E i \in 1..Len(OwnKeys(ValueAt(obj, keys, n - 1))) :
              OwnKeys(ValueAt(obj, keys, n - 1))[i] = keys[n]

\* the first position where two key sequences differ, past the end of the shorter if none
FirstDifference(ks, ls) ==
    CHOOSE d \in 1..(Len(ks) + 1) :
      /\ \A n \in 1..(d - 1) : n <= Len(ls) /\ ks[n] = ls[n]
      /\ d > Len(ks) \/ d > Len(ls) \/ ks[d] # ls[d]

\* ks comes before ls in the depth-first walk of obj
DepthFirstBefore(obj, ks, ls) ==
    IF FirstDifference(ks, ls) > Len(ks) THEN Len(ls) > Len(ks)
    ELSE /\ FirstDifference(ks, ls) <= Len(ls)
         /\ KeyIndex(ValueAt(obj, ks, FirstDifference(ks, ls) - 1), ks[FirstDifference(ks, ls)])
              < KeyIndex(ValueAt(obj, ks, FirstDifference(ks, ls) - 1), ls[FirstDifference(ks, ls)])

\* the paths are, in depth-first order, the paths of the own keys reachable
\* from obj through at most maxDepth levels, each under the prefix
DepthFirstPaths(obj, prefix, maxDepth, paths) ==
    /\ \A n \in 1..Len(paths) :
         /\ prefix # <<>> => SubSeq(paths[n], 1, Len(prefix) + 1) = prefix \o <<".">>
         /\ Len(KeysBelow(prefix, paths[n])) <= maxDepth
         /\ Reachable(obj, KeysBelow(prefix, paths[n]))
    /\ maxDepth >= 1 /\ obj.t \in {"object", "array"}
         => \A i \in 1..Len(OwnKeys(obj)) :
              \E n \in 1..Len(paths) : KeysBelow(prefix, paths[n]) = <<OwnKeys(obj)[i]>>
    /\ \A n \in 1..Len(paths) :
         (/\ Len(KeysBelow(prefix, paths[n])) < maxDepth
          /\ IsNonArrayObject(ValueAt(obj, KeysBelow(prefix, paths[n]), Len(KeysBelow(prefix, paths[n])))))
           => \A i \in 1..Len(OwnKeys(ValueAt(obj, KeysBelow(prefix, paths[n]), Len(KeysBelow(prefix, paths[n]))))) :
                \E m \in 1..Len(paths) :
                  paths[m] = paths[n] \o <<".", OwnKeys(ValueAt(obj, KeysBelow(prefix, paths[n]),
                                                               Len(KeysBelow(prefix, paths[n]))))[i]>>
    /\ \A n, m \in 1..Len(paths) :
         n < m => DepthFirstBefore(obj, KeysBelow(prefix, paths[n]), KeysBelow(prefix, paths[m]))

\* C21: extractAllKeys(record, prefix, maxDepth) returns, in depth-first
\* order, one path per own key reachable through at most maxDepth levels of
\* non-array objects: no path descends more than maxDepth levels, an array
\* value contributes its own path and none for its elements, and recursion
\* stops without error when the depth is exhausted.
C21_DepthFirstPaths ==
    invocation.op = "extractAllKeys"
      => /\ result.kind = "return"
         /\ DepthFirstPaths(invocation.obj, invocation.prefix, invocation.maxDepth, result.value)

\* the part of C21 that the code keeps: whenever extractAllKeys returns, its
\* paths are the depth-first paths within maxDepth
C21_DepthFirstPathsWhenReturning ==
    (invocation.op = "extractAllKeys" /\ result.kind = "return")
      => DepthFirstPaths(invocation.obj, invocation.prefix, invocation.maxDepth, result.value)

\* maxDepth = 1 on an object nested deeper gives the top-level key only
C21_WitnessBoundary ==
    /\ invocation.op = "extractAllKeys"
    /\ invocation.obj = Nest(DefaultMaxDepth + 1)
    /\ invocation.maxDepth = 1
    /\ result = Return(<< <<"a">> >>)

\* an array value gives its own path and none for its elements
C21_WitnessArray ==
    /\ invocation.op = "extractAllKeys"
    /\ invocation.obj = Rec1
    /\ invocation.prefix = <<>>
    /\ invocation.maxDepth = DefaultMaxDepth
    /\ result = Return(<< <<"id">>, <<"user">>, <<"user", ".", "id">>, <<"user", ".", "name">>, <<"tags">>,
                          <<"createdAt">>, <<"active">>, <<"note">> >>)

\* an element rendered on its own: JSON text for a sequence or a key-value
\* structure, the string form for anything else
RenderedElement(item) ==
    IF item.t \in {"array", "object"} THEN JsonText(item) ELSE StringOf(item)

\* the elements from the i-th on, rendered and joined with ';'
RECURSIVE JoinedFrom(_, _)
JoinedFrom(items, i) ==
    IF i = Len(items) THEN RenderedElement(items[i])
    ELSE RenderedElement(items[i]) \o <<";">> \o JoinedFrom(items, i + 1)

\* the single string the claim gives for a sequence
JoinedText(items) == IF Len(items) = 0 THEN Str(<<>>) ELSE Str(JoinedFrom(items, 1))

\* C22: serializeValue of a non-empty sequence is the ';'-join, in order, of
\* its elements rendered one by one (a sequence or key-value element as its
\* JSON text, every other element as its string form); of an empty sequence
\* it is the empty string; the result is always a single string.
C22_JoinedElements ==
    (invocation.op = "serializeValue" /\ invocation.value.t = "array")
      => result = Return(JoinedText(invocation.value.items))

\* the part of C22 that the code keeps: whenever serializeValue of a sequence
\* returns, it returns the joined text
C22_JoinedElementsWhenReturning ==
    (invocation.op = "serializeValue" /\ invocation.value.t = "array" /\ result.kind = "return")
      => result.value = JoinedText(invocation.value.items)

\* serialize([1,2,3]) == "1;2;3"
C22_WitnessNumbers ==
    /\ invocation.op = "serializeValue"
    /\ invocation.value = Arr(<<Num(<<"1">>), Num(<<"2">>), Num(<<"3">>)>>)
    /\ result = Return(Str(<<"1", ";", "2", ";", "3">>))

\* a sequence holding a key-value structure and a nested sequence
C22_WitnessNested ==
    /\ invocation.op = "serializeValue"
    /\ invocation.value = Mixed
    /\ result = Return(Str(<<"null", ";", "undefined", ";",
                             "{", "\"", "id", "\"", ":", "7", ",", "\"", "name", "\"", ":", "\"", "Alice", "\"", "}",
                             ";", "[", "1", "]", ";", "Mon Jan 15 2024 00:00:00 GMT+0000 (UTC)", ";", "true">>))

(***************************************************************************)
(* Further claims about the classifier (ClassifierSpec)                    *)
(***************************************************************************)

\* the message of the error, case folded, holds the text
Mentions(e, text) == Includes(toLowerCase(e.message), text)

\* a generic fetch failure, by its message
FetchFailureShaped(e) ==
    Mentions(e, <<"failed to fetch">>) \/ Mentions(e, <<"network", " request failed">>)

\* the message mentions network, connection, refused or offline
MentionsNetworkWord(e) ==
    \/ Mentions(e, <<"network">>)
    \/ Mentions(e, <<"connection">>)
    \/ Mentions(e, <<"refused">>) \/ Mentions(e, <<"econnrefused">>)
    \/ Mentions(e, <<"offline">>)

\* C23 (as stated): the kind is network exactly for the errors not classified
\* cross-origin that are generic fetch failures ('failed to fetch' /
\* 'network request failed') or whose message mentions network, connection,
\* refused or offline; a TypeError with an unrelated message is not network.
C23_Original ==
    Classified =>
      (errorInfo.type = "network"
         <=> (~CorsRule(error) /\ (FetchFailureShaped(error) \/ MentionsNetworkWord(error))))

\* C23 (amended): the kind is network exactly for the errors not classified
\* cross-origin that either are named TypeError, whatever their message, or
\* whose message holds, in any letter case, 'network', 'failed to fetch',
\* 'connection', 'econnrefused' or 'offline'; 'refused' outside
\* 'econnrefused' does not make an error a network error.
C23_NetworkByNameOrMessage ==
    Classified =>
      (errorInfo.type = "network"
         <=> (/\ ~CorsRule(error)
              /\ \/ error.name = "TypeError"
                 \/ Mentions(error, <<"network">>)
                 \/ Mentions(error, <<"failed to fetch">>)
                 \/ Mentions(error, <<"connection">>)
                 \/ Mentions(error, <<"econnrefused">>)
                 \/ Mentions(error, <<"offline">>)))

\* a TypeError with an unrelated message has been classified as network
C23_Witness ==
    /\ Classified
    /\ error.name = "TypeError"
    /\ error.message = <<"other">>
    /\ errorInfo.type = "network"

\* an Error whose message is 'refused' has been classified, and not as network
C23_WitnessRefused ==
    /\ Classified
    /\ error.name = "Error"
    /\ error.message = <<"refused">>
    /\ errorInfo.type = "unknown"

\* an Error 'Failed to fetch', no TypeError, has been classified as network
C23_WitnessFetch ==
    /\ Classified
    /\ error.name = "Error"
    /\ error.message = <<"Failed to fetch">>
    /\ errorInfo.type = "network"

(***************************************************************************)
(* inferColumnType on its own (InferSpec): the method is called on lists   *)
(* longer than its scan window                                             *)
(***************************************************************************)

\* the values of the inferred column
InferValues ==
    { Null, Num(<<"1">>), Num(<<"1", ".", "5">>), Bool("true"),
      Str(<<"2024", "-", "01", "-", "15">>), Str(<<"2024", "-", "01", "-", "15", "T10:00">>),
      Str(<<"other">>), Str(<<"15", "-", "01", "-", "2024">>), Arr(<<>>) }

\* a record without a value for the column: the key is null or absent
Blank(i) ==
    IF i % 2 = 1 THEN <<Entry("score", Null)>> ELSE <<Entry("id", Num(<<"1">>))>>

\* the records argument: leading records without a value, then at most two records with one
InferLists ==
    { [i \in 1..k |-> Blank(i)] \o tail :
        k \in 0..MaxSkipped, tail \in ListsUpTo({ <<Entry("score", v)>> : v \in InferValues }, 2) }

InferInit ==
    /\ MapperIdle
    /\ ClientIdle
    /\ ClassifierIdle
    /\ WizardIdle

InferColumnType ==
    /\ invocation = NoCall
    /\ \E records \in InferLists :
         /\ invocation' = [op |-> "inferColumnType", records |-> records, columnName |-> "score"]
         /\ Ended(Return(inferColumnType(records, "score")))

InferNext == InferColumnType

InferSpec == InferInit /\ [][InferNext]_vars

\* record[columnName], undefined for an absent key
ColumnValue(record, columnName) ==
    IF \E i \in 1..Len(record) : record[i].key = columnName
    THEN record[CHOOSE i \in 1..Len(record) : record[i].key = columnName].value
    ELSE Undefined

\* the positions among the first ten records that hold a value for the column
Deciding(records, columnName) ==
    { i \in 1..Len(records) :
        i <= 10 /\ ColumnValue(records[i], columnName).t \notin {"null", "undefined"} }

\* the type the claim gives to a value
TypeOfValue(value) ==
    CASE value.t = "number" /\ IsIntegerText(value.v) -> "Int"
      [] value.t = "number" /\ ~IsIntegerText(value.v) -> "Numeric"
      [] value.t = "boolean" -> "Bool"
      [] value.t = "string" /\ DateRegexTest(value.v) -> "DateTime"
      [] OTHER -> "Text"

\* C24: inferColumnType looks only at the first 10 records, skips null /
\* undefined values of the key, and the first value found alone decides the
\* type (integer number Int, other number Numeric, boolean Bool, string
\* starting with YYYY-MM-DD DateTime, anything else Text); with no value in
\* the first 10 records the type is Text, whatever later records hold.
C24_FirstValueInWindowDecides ==
    invocation.op = "inferColumnType" =>
      result = Return(IF Deciding(invocation.records, invocation.columnName) = {}
                      THEN "Text"
                      ELSE TypeOfValue(ColumnValue(
                             invocation.records[CHOOSE i \in Deciding(invocation.records, invocation.columnName) :
                                                  \A j \in Deciding(invocation.records, invocation.columnName) : i <= j],
                             invocation.columnName)))

\* ten records without a value, then a number: the type is Text
C24_Witness ==
    /\ invocation.op = "inferColumnType"
    /\ Len(invocation.records) > 10
    /\ Deciding(invocation.records, "score") = {}
    /\ ColumnValue(invocation.records[11], "score").t = "number"
    /\ result = Return("Text")

\* the value of the tenth record decides, against a different later value
C24_WitnessTenth ==
    /\ invocation.op = "inferColumnType"
    /\ Len(invocation.records) = 11
    /\ Deciding(invocation.records, "score") = {10}
    /\ ColumnValue(invocation.records[11], "score").t = "boolean"
    /\ result = Return("Numeric")

(***************************************************************************)
(* Further claims about the client (Spec)                                  *)
(***************************************************************************)

\* addRecords, on a client whose sink returns, failed on its request
InsertionFailed ==
    /\ Done
    /\ call.op = "addRecords"
    /\ NonEmptyInput
    /\ ~SinkThrows(onLog, "error") /\ ~SinkThrows(onLog, "info")
    /\ outcome.kind = "throw"

\* the kind the sync step gives to a caught value: analyzeError(error, 'grist_sync').type
SyncKind(e) == analyzeError(e, "grist_sync").type

\* C25: classification is stable under re-classification of a re-raised
\* error: when addRecords fails with a failure of kind K, classifying the
\* error that addRecords raises, with the same 'grist_sync' context, also
\* yields kind K, for every kind K.
C25_ReclassificationStable ==
    InsertionFailed => SyncKind(outcome.error) = SyncKind(CauseOf(call).error)

\* the kinds that survive the re-raise: the diagnosis message of cors and
\* invalid_json holds the word the classifier looks for, and unknown is the fallback
C25_StableKinds ==
    (InsertionFailed /\ SyncKind(CauseOf(call).error) \in {"cors", "invalid_json", "unknown"})
      => SyncKind(outcome.error) = SyncKind(CauseOf(call).error)

\* every other kind is lost: the re-raised error is classified unknown
C25_OtherKindsBecomeUnknown ==
    (InsertionFailed /\ SyncKind(CauseOf(call).error) \notin {"cors", "invalid_json", "unknown"})
      => SyncKind(outcome.error) = "unknown"

\* a 404 of the insertion, kind not_found, re-classified as unknown
C25_WitnessNotFound ==
    /\ InsertionFailed
    /\ network.postRecords.kind = "response"
    /\ network.postRecords.status = 404
    /\ SyncKind(CauseOf(call).error) = "not_found"
    /\ SyncKind(outcome.error) = "unknown"

----------------------------------------------------------------------------
(* Claims about the wizard (WizardSpec) *)

\* step 1 delivered 'complete' with records while the wizard showed step 1
CompleteHandled ==
    /\ event'.name = "fetchSettled"
    /\ event'.delivered
    /\ Len(event'.records) > 0
    /\ currentStep = 1

\* C26: when the fetch of step 1 succeeds with at least one record, handling
\* its 'complete' event moves the wizard from step 1 to step 2 without the
\* user pressing Next: afterwards currentStep is 2 and apiData holds the
\* fetched records.
C26_CompleteAdvances ==
    [][CompleteHandled => (currentStep' = 2 /\ apiData' = event'.records)]_vars

\* C26, what the handler does: the records are stored, and the wizard moves
\* to step 2 only when isLoading was false when 'complete' arrived, which
\* takes another fetch to have ended first.
C26_CompleteAdvancesUnlessLoading ==
    [][CompleteHandled =>
         /\ apiData' = event'.records
         /\ currentStep' = IF isLoading THEN 1 ELSE 2]_vars

\* a single fetch ended with records and the wizard still shows step 1
C26_WitnessStays ==
    /\ event.name = "fetchSettled"
    /\ event.delivered
    /\ Len(event.records) > 0
    /\ apiData = event.records
    /\ event.step = 1
    /\ currentStep = 1
    /\ pending = <<>>

\* the records of a second fetch arrived after the first one had ended
C26_WitnessAdvanced ==
    /\ event.name = "fetchSettled"
    /\ event.delivered
    /\ Len(event.records) > 0
    /\ event.step = 1
    /\ currentStep = 2

\* the completion predicate of step s, on the refs after the transition
CompletionHolds(s) ==
    CASE s = 1 -> Len(apiData') > 0
      [] s = 2 -> \E i \in 1..Len(wizardMappings') :
                    /\ wizardMappings'[i].gristColumn # ""
                    /\ wizardMappings'[i].apiField # ""
      [] s = 3 -> /\ gristConfig'.docId \notin {"", "YOUR_DOC_ID"}
                  /\ gristConfig'.tableId \notin {"", "YOUR_TABLE_ID"}
      [] OTHER -> FALSE

\* currentStep changed, and not by restartWizard: goToStep changed it
GoToStepTransition ==
    /\ currentStep' # currentStep
    /\ event'.name # "restartWizard"

\* C27: in every reachable state currentStep is between 1 and 4; every
\* goToStep transition changes it by exactly one; a forward transition from
\* step s happens only when the completion predicate of step s holds; and no
\* goToStep transition happens while isLoading is true.
C27_StepInvariants ==
    /\ [](currentStep \in 1..4)
    /\ [][GoToStepTransition =>
            /\ currentStep' \in {currentStep - 1, currentStep + 1}
            /\ currentStep' = currentStep + 1 => CompletionHolds(currentStep)
            /\ ~isLoading]_vars

\* goToStep took the wizard from step 3 to the last step
C27_Witness ==
    /\ event.name = "goToStep"
    /\ event.step = 3
    /\ currentStep = 4

\* goToStep was called while loading and left the step alone
C27_WitnessLoading ==
    /\ event.name = "goToStep"
    /\ isLoading
    /\ currentStep = event.step

\* goToStep took the wizard back
C27_WitnessBack ==
    /\ event.name = "goToStep"
    /\ currentStep = event.step - 1

====
